---- MODULE Spec2Model ----
(***************************************************************************)
(* World Bank GIS monitor: the change-detection and notification state     *)
(* machine of monitor_agent.py (four streams) and of main.py (projects     *)
(* only).  One run of a script is one process: it loads the state files,   *)
(* walks the streams in order (fetch, filter, diff-and-notify, persist),   *)
(* checks the weekly heartbeat and returns to the top-level handler.       *)
(***************************************************************************)
EXTENDS Integers, Sequences, FiniteSets, TLC

\* ------------------------------------------------------------------------
\* Bounds of the model
\* ------------------------------------------------------------------------

\* Most records in one server response of the diff specification.
MaxFetch == 2

\* Most pages of a Projects API result in the function specification.
MaxPages == 3

\* Longest text and longest keyword of the function specification.
MaxText == 3

MaxKeyword == 2

\* Largest max_retries argument of a call of the HTTP client.
MaxRetriesArg == 4

\* Last day of the modelled calendar (day 0 is Monday 2024-01-01).
MaxDay == 7

\* ------------------------------------------------------------------------
\* Configuration (module-level constants of the scripts)
\* ------------------------------------------------------------------------

ENABLE_TENDERS_STREAM == FALSE

ENABLE_AWARDS_STREAM == FALSE

NIGERIA_COUNTRY_CODE == "NG"

MAX_RETRIES == 3

RETRY_BACKOFF_SECONDS == 3

\* date.weekday() of the heartbeat day (Monday).
HEARTBEAT_WEEKDAY == 0

\* The streams of monitor_agent.run_monitor, in the order of its blocks.
Streams == <<"projects", "docs", "tenders", "awards">>

StreamSet == {Streams[i] : i \in 1..Len(Streams)}

\* A run that takes the documents block first.
StreamSeqDocsFirst(p) ==
    IF p = "agent" THEN <<"docs", "projects", "tenders", "awards">> ELSE <<"projects">>

\* The blocks one run of a script walks through.
StreamSeq(p) == IF p = "agent" THEN Streams ELSE <<"projects">>

\* A run_monitor whose four blocks all run.
EnabledAll(s) == TRUE

\* The boolean guard around a stream's block.
Enabled(s) ==
    CASE s = "tenders" -> ENABLE_TENDERS_STREAM
      [] s = "awards" -> ENABLE_AWARDS_STREAM
      [] OTHER -> TRUE

\* ------------------------------------------------------------------------
\* Values
\* ------------------------------------------------------------------------

\* Python's None: the result of dict.get on an absent key.
None == "None"

\* The non-empty record ids of the model, as the server sends them.
Keys == {"a", " a"}

\* Update markers ("" is the normalised absent marker).
Markers == {"", "m1"}

\* str.strip() on the ids of the model.
Strip(x) == IF x = " a" THEN "a" ELSE x

\* A state map {id: marker}: None marks an absent key.
EmptyMap == [k \in Keys |-> None]

\* ISO dates of the modelled calendar; date.isoformat() and date.weekday().
DayNames ==
    <<"2024-01-01", "2024-01-02", "2024-01-03", "2024-01-04", "2024-01-05",
      "2024-01-06", "2024-01-07", "2024-01-08", "2024-01-09", "2024-01-10">>

IsoFormat(d) == DayNames[d + 1]

Weekday(d) == d % 7

Days == 0..MaxDay

\* The monitor state {"last_heartbeat_date": date}.
MonitorKeys == {"last_heartbeat_date"}

EmptyMonitor == [k \in MonitorKeys |-> None]

\* ------------------------------------------------------------------------
\* State files
\* ------------------------------------------------------------------------

\* A file on disk: missing, unparsable, a JSON object or a JSON array (the
\* legacy list of ids).
MissingFile(empty) == [kind |-> "missing", map |-> empty, ids |-> {}]

CorruptFile(empty) == [kind |-> "corrupt", map |-> empty, ids |-> {}]

DictFile(m, empty) == [kind |-> "dict", map |-> m, ids |-> {}]

ListFile(ids, empty) == [kind |-> "list", map |-> empty, ids |-> ids]

\* A loader that stamps the ids of a legacy array with a marker.
LoadStateMapStamped(f, empty) ==
    CASE f.kind = "dict" -> f.map
      [] f.kind = "list" -> [k \in DOMAIN empty |-> IF k \in f.ids THEN "m1" ELSE None]
      [] OTHER -> empty

\* A loader that forgets the markers of a JSON object.
LoadStateMapForgets(f, empty) ==
    CASE f.kind = "list" -> [k \in DOMAIN empty |-> IF k \in f.ids THEN "" ELSE None]
      [] OTHER -> empty

\* _load_state_map / load_processed_projects.
LoadStateMap(f, empty) ==
    CASE f.kind = "dict" -> f.map
      [] f.kind = "list" -> [k \in DOMAIN empty |-> IF k \in f.ids THEN "" ELSE None]
      [] OTHER -> empty

\* main.load_monitor_state accepts a JSON object only.
MainLoadMonitorState(f) == IF f.kind = "dict" THEN f.map ELSE EmptyMonitor

load_monitor_state(p, f) ==
    IF p = "agent" THEN LoadStateMap(f, EmptyMonitor) ELSE MainLoadMonitorState(f)

\* monitor_state.get("last_heartbeat_date", "").
LastHeartbeat(ms) ==
    IF ms["last_heartbeat_date"] = None THEN "" ELSE ms["last_heartbeat_date"]

\* The outcomes of open(path, "w") + json.dump: written; OSError from open
\* (file untouched); OSError while writing (file truncated by open).
WriteOutcomes == {"ok", "open_failed", "write_failed"}

\* A save that keeps the entries of the file that the map does not have.
SaveStateMapMerging(old, mapping, empty, w) ==
    CASE w = "ok" ->
            DictFile([k \in DOMAIN empty |->
                        IF mapping[k] # None THEN mapping[k]
                        ELSE LoadStateMap(old, empty)[k]], empty)
      [] w = "open_failed" -> old
      [] OTHER -> CorruptFile(empty)

\* _save_state_map / save_processed_projects / save_monitor_state: the
\* OSError is caught and logged.
SaveStateMap(old, mapping, empty, w) ==
    CASE w = "ok" -> DictFile(mapping, empty)
      [] w = "open_failed" -> old
      [] OTHER -> CorruptFile(empty)

\* ------------------------------------------------------------------------
\* Records and server responses
\* ------------------------------------------------------------------------

\* One value of a response's collection: isdict says whether it is a JSON
\* object; id, marker, cc (country code) are its fields; match abstracts
\* text_matches_keywords(extract_text(record), KEYWORDS) with the KEYWORDS
\* of the script that runs.
Rec(i, m, k, c, d) == [id |-> i, marker |-> m, match |-> k, cc |-> c, isdict |-> d]

\* One page of a server response.
\*   transport      get_with_retries returned None
\*   http_error     raise_for_status raised
\*   non_json       the body is no JSON
\*   non_object     the body is JSON but no object
\*   bad_total      an object whose total is not numeric
\*   bad_collection the collection is truthy and not a dict
\*   ok             an object with a dict collection of recs
PageKinds ==
    {"transport", "http_error", "non_json", "non_object", "bad_total",
     "bad_collection", "ok"}

Page(k, rs, t, r) == [kind |-> k, recs |-> rs, total |-> t, rows |-> r]

\* rows_per_page of fetch_projects_for_nigeria.
ROWS_PER_PAGE == 50

OkPage(rs) == Page("ok", rs, Len(rs), ROWS_PER_PAGE)

FailPage(k) == Page(k, <<>>, 0, ROWS_PER_PAGE)

\* What a server answers past its last page.
EmptyPage == OkPage(<<>>)

EmptyServer == <<EmptyPage>>

\* The result of a call: a value or a raised exception.
Ok(v) == [raised |-> FALSE, exc |-> None, val |-> v]

Raise(e) == [raised |-> TRUE, exc |-> e, val |-> <<>>]

\* An adapter that returns nothing once a page has failed.
ReturnNothing(all_projects) == <<>>

\* `break` and `return all_projects`: what the pages before gave is kept.
ReturnAfterBreak(all_projects) == all_projects

SelectNG(rs) == SelectSeq(rs, LAMBDA r : r.cc = NIGERIA_COUNTRY_CODE)

SelectDict(rs) == SelectSeq(rs, LAMBDA r : r.isdict)

AllDict(rs) == \A i \in 1..Len(rs) : rs[i].isdict

\* fetch_projects_for_nigeria / fetch_active_projects_for_nigeria: the
\* while loop from page `page` on, with all_projects = acc.
RECURSIVE FetchProjectPages(_, _, _)
FetchProjectPages(pages, page, acc) ==
    LET resp == IF page <= Len(pages) THEN pages[page] ELSE EmptyPage
    IN  CASE resp.kind \in {"transport", "http_error", "non_json"} ->
                Ok(ReturnAfterBreak(acc))
          [] resp.kind = "non_object" -> Raise("AttributeError")
          [] resp.kind = "bad_total" -> Raise("ValueError")
          [] resp.kind = "bad_collection" -> Ok(ReturnAfterBreak(acc))
          [] OTHER ->
                IF ~AllDict(resp.recs)
                THEN Raise("AttributeError")
                ELSE LET all == acc \o SelectNG(resp.recs)
                     IN  IF page * resp.rows >= resp.total \/ resp.recs = <<>>
                         THEN Ok(all)
                         ELSE FetchProjectPages(pages, page + 1, all)

fetch_projects_for_nigeria(pages) == FetchProjectPages(pages, 1, <<>>)

\* The page requests the while loop makes from page `page` on: one per
\* iteration, the last one the iteration that breaks or raises.
RECURSIVE PageRequests(_, _)
PageRequests(pages, page) ==
    LET resp == IF page <= Len(pages) THEN pages[page] ELSE EmptyPage
    IN  IF resp.kind # "ok" \/ ~AllDict(resp.recs)
        THEN 1
        ELSE IF page * resp.rows >= resp.total \/ resp.recs = <<>>
             THEN 1
             ELSE 1 + PageRequests(pages, page + 1)

\* fetch_procurement_plans_for_nigeria: one request, dict values only.
fetch_procurement_plans_for_nigeria(pages) ==
    LET resp == pages[1]
    IN  CASE resp.kind \in {"transport", "http_error", "non_json"} -> Ok(<<>>)
          [] resp.kind = "non_object" -> Raise("AttributeError")
          [] resp.kind = "bad_collection" -> Ok(<<>>)
          [] OTHER -> Ok(SelectDict(resp.recs))

\* fetch_tenders_for_nigeria / fetch_awards_for_nigeria: one request; a
\* body that is neither a list nor an object gives no rows.
fetch_finances_one(pages) ==
    LET resp == pages[1]
    IN  CASE resp.kind \in {"transport", "http_error", "non_json"} -> Ok(<<>>)
          [] resp.kind \in {"non_object", "bad_collection"} -> Ok(<<>>)
          [] OTHER -> Ok(SelectDict(resp.recs))

\* The adapter of stream s.
Fetch(s, pages) ==
    CASE s = "projects" -> fetch_projects_for_nigeria(pages)
      [] s = "docs" -> fetch_procurement_plans_for_nigeria(pages)
      [] OTHER -> fetch_finances_one(pages)

\* A filter that returns the matching records last first.
MatchingReversed(rs) ==
    LET m == SelectSeq(rs, LAMBDA r : r.match)
    IN  [i \in 1..Len(m) |-> m[Len(m) + 1 - i]]

\* The keyword filter: [r for r in records if matches_keywords(r)].
Matching(rs) == SelectSeq(rs, LAMBDA r : r.match)

\* An extraction that puts a placeholder where the id is empty.
GetIdOrUnknown(s, r) == IF Strip(r.id) = "" THEN "a" ELSE Strip(r.id)

\* get_tender_id / get_award_id / get_document_id on the values of the
\* candidate fields in their order: str() of the first that is not None,
\* "" when there is none.
RECURSIVE FirstNonNull(_)
FirstNonNull(values) ==
    IF values = <<>> THEN ""
    ELSE IF Head(values) # None THEN Head(values)
    ELSE FirstNonNull(Tail(values))

\* str(project.get("id") or "").strip(), get_document_id, get_tender_id.
GetId(s, r) == IF s = "projects" THEN Strip(r.id) ELSE r.id

\* get_*_last_update: the marker field, "" when absent.
GetLastUpdate(r) == r.marker

\* ------------------------------------------------------------------------
\* Keyword matcher
\* ------------------------------------------------------------------------

\* Strings are sequences of characters: one letter in both cases, two
\* lower-case letters.
Chars == {"G", "g", "i", "o"}

\* A matcher that compares the cases as they are.
LowerKeeps(s) == s

\* str.lower().
Lower(s) == [i \in 1..Len(s) |-> IF s[i] = "G" THEN "g" ELSE s[i]]

\* Python's `kw in text` on strings.
Contains(text, kw) ==
    \E i \in 1..(Len(text) + 1) :
        i + Len(kw) - 1 <= Len(text) /\ SubSeq(text, i, i + Len(kw) - 1) = kw

\* text_matches_keywords / main.project_matches_keywords after the text
\* is extracted.
text_matches_keywords(text, keywords) ==
    IF text = <<>> THEN FALSE
    ELSE \E kw \in keywords : Contains(Lower(text), Lower(kw))

\* ------------------------------------------------------------------------
\* Notifier
\* ------------------------------------------------------------------------

\* What post_with_retries ends with: a response with a status code, None
\* (retries exhausted) or an exception that is no RequestException.
Statuses == {199, 200, 299, 300}

PostResults ==
    {[kind |-> "response", status |-> c] : c \in Statuses}
        \cup {[kind |-> "none", status |-> 0], [kind |-> "raise", status |-> 0]}

\* A check that takes every response for a success.
IsAnyResponse(post) == post.kind = "response"

\* The check of the response in every send_* function.
IsSuccess(post) == post.kind = "response" /\ 200 <= post.status /\ post.status < 300

\* A guard that lets every send through.
ConfiguredAlways(url_ok) == TRUE

\* The configuration guard of every send_* function.
Configured(url_ok) == url_ok

\* send_*_embed / send_discord_heartbeat: False without a POST when the
\* webhook URL is missing or the placeholder; else True iff the response
\* is a 2xx.  (The exception of a raising POST passes through.)
SendResult(url_ok, post) == Configured(url_ok) /\ IsSuccess(post)

SendRaises(url_ok, post) == Configured(url_ok) /\ post.kind = "raise"

\* The POST results a send can meet: none is drawn when no POST is made.
PostChoices(url_ok) ==
    IF Configured(url_ok) THEN PostResults ELSE {[kind |-> "none", status |-> 0]}

\* What one request attempt (requests.get / requests.post) ends with: a
\* response with a status code, a requests.RequestException (transport
\* level) or an exception of another class.
AttemptOutcomes ==
    {[kind |-> "response", status |-> c] : c \in Statuses}
        \cup {[kind |-> "transport", status |-> 0], [kind |-> "raise", status |-> 0]}

\* A client that also retries a response with an error status.
CaughtOrErrorStatus(o) ==
    o.kind = "transport" \/ (o.kind = "response" /\ ~(200 <= o.status /\ o.status < 300))

\* `except requests.RequestException`: the outcomes the client catches.
Caught(o) == o.kind = "transport"

\* A backoff that does not grow with the attempt number.
BackoffConstant(attempt) == RETRY_BACKOFF_SECONDS

\* sleep(RETRY_BACKOFF_SECONDS * attempt).
Backoff(attempt) == RETRY_BACKOFF_SECONDS * attempt

\* The result of a call of the HTTP client that has not ended.
Pending == [kind |-> "pending", status |-> 0]

\* No function has been called.
NoCall == [fn |-> "none", stream |-> "none", arg |-> <<>>, out |-> <<>>]

\* The HTTP client and the notifier at rest.
NoHttp ==
    [pc |-> "idle", caller |-> "none", max_retries |-> 0, attempt |-> 1,
     tried |-> <<>>, slept |-> <<>>, result |-> Pending, sent |-> "none"]

\* ------------------------------------------------------------------------
\* State
\* ------------------------------------------------------------------------

VARIABLES
    prog,           \* the deployed script: "agent" (monitor_agent.py) or "main"
    url_ok,         \* DISCORD_WEBHOOK_URL is set and not the placeholder
    track,          \* which history is recorded: "run", "rerun" or "delivery"
    call,           \* one call of a function of the program: its name, its
                    \* argument and what it returned
    http,           \* one call of the HTTP client or of a send function:
                    \* its position, its arguments, the attempts made, the
                    \* sleeps taken and its result
    legacy,         \* per stream, the ids of the legacy array the first run
                    \* met (recorded in the delivery history only)
    clock,          \* the current day (environment)
    server,         \* per stream, the pages its API answers with (environment)
    file,           \* per stream, the content of its state file
    monitor_file,   \* the content of monitor_state.json
    pc,             \* position of the running process, "idle" when none runs
    cur,            \* index in StreamSeq(prog) of the current block
    st,             \* projects_state, docs_state, tenders_state, awards_state
    monitor_state,  \* monitor_state / state
    matching,       \* matching_projects, matching_docs, ... of the block
    idx,            \* position of the for loop in matching
    total,          \* total_projects, total_docs, total_tenders, total_awards
    alerts,         \* project_alerts, document_alerts, ... / new_or_updated_count
    exc,            \* the exception in flight, None when there is none
    exit_status,    \* how the last process ended, and with which status
    sends,          \* history: the alert sends of this run, in order
    wrote,          \* history: per stream, the outcome of this run's write
    fetched,        \* history: the streams whose fetch this run has called
    hb,             \* history: the heartbeat check of this run
    prev,           \* history: how the previous process ended
    same,           \* history: the servers answer as they did to the previous run
    ever,           \* history: every <<stream, id, marker>> delivered so far,
                    \* and <<"heartbeat", day, "">> for every heartbeat
    lastDel,        \* history: per stream and id, the marker delivered last
    dup,            \* history: some alert was delivered twice in a row
    lost,           \* history: a run ended with commits that are not on disk
    other           \* a second process of the agent started while the first
                    \* runs: its position, its projects_state, its loop and
                    \* the history of its sends and of its write

vars ==
    <<prog, url_ok, track, call, http, legacy, clock, server, file, monitor_file, pc, cur, st,
      monitor_state, matching, idx, total, alerts, exc, exit_status,
      sends, wrote, fetched, hb, prev, same, ever, lastDel, dup, lost, other>>

envVars == <<prog, url_ok, track, call, http, legacy, other>>

histVars == <<prev, same, ever, lastDel, dup, lost>>

\* The heartbeat history before the check has run.
NoHeartbeat ==
    [checked |-> FALSE, gate |-> FALSE, attempts |-> 0, ok |-> FALSE,
     posted |-> FALSE, today |-> "", loaded |-> None, counts |-> <<>>]

ZeroCount == [s \in StreamSet |-> 0]

\* The exit of a process: how it ended ("none" while none has ended, "exit"
\* when the interpreter ended by itself, "killed" when the host ended it),
\* the exit status and the exception the top-level handler caught.
NoExit == [how |-> "none", code |-> 0, caught |-> None]

NoWrites == [s \in StreamSet |-> "none"]

\* The stream of the current block.
CurStream == StreamSeq(prog)[cur]

\* Where the process goes after block number c.
AfterBlock(c) == IF c >= Len(StreamSeq(prog)) THEN "heartbeat" ELSE "stream"

\* ------------------------------------------------------------------------
\* Operations of a run
\* ------------------------------------------------------------------------

\* The state files run_monitor reads before its first fetch: the agent
\* reads projects, tenders and awards (docs_state is read inside the docs
\* block), main.py reads its processed projects.
\* A run_monitor that loads all four stream states in its first lines.
LoadedAtStartAll(p) ==
    IF p = "agent" THEN {"projects", "docs", "tenders", "awards"} ELSE {"projects"}

\* The stream states run_monitor loads in its first lines.
LoadedAtStart(p) == IF p = "agent" THEN {"projects", "tenders", "awards"} ELSE {"projects"}

\* A process starts: run_monitor loads its state and zeroes its counters.
Start ==
    /\ pc = "idle"
    /\ pc' = "stream"
    /\ cur' = 1
    /\ st' = [s \in StreamSet |->
                IF s \in LoadedAtStart(prog) THEN LoadStateMap(file[s], EmptyMap)
                ELSE EmptyMap]
    /\ monitor_state' = load_monitor_state(prog, monitor_file)
    /\ matching' = <<>>
    /\ idx' = 1
    /\ total' = ZeroCount
    /\ alerts' = ZeroCount
    /\ exc' = None
    /\ exit_status' = NoExit
    /\ sends' = <<>>
    /\ wrote' = NoWrites
    /\ fetched' = {}
    /\ hb' = [NoHeartbeat EXCEPT
                !.loaded = LastHeartbeat(load_monitor_state(prog, monitor_file))]
    /\ UNCHANGED <<envVars, histVars, clock, server, file, monitor_file>>

\* A disabled stream's block: the else branch logs and goes on.
SkipStream ==
    /\ pc = "stream"
    /\ ~Enabled(CurStream)
    /\ pc' = AfterBlock(cur)
    /\ cur' = IF AfterBlock(cur) = "stream" THEN cur + 1 ELSE cur
    /\ UNCHANGED <<envVars, histVars, clock, server, file, monitor_file, st, monitor_state,
                   matching, idx, total, alerts, exc, exit_status, sends, wrote,
                   fetched, hb>>

\* Fetch and filter of the current block.  An exception of the adapter
\* leaves run_monitor.  The agent's docs block loads docs_state after its
\* fetch; main.py goes to its heartbeat and returns when nothing was
\* fetched or nothing matches.
FetchStream ==
    /\ pc = "stream"
    /\ Enabled(CurStream)
    /\ LET s == CurStream
           r == Fetch(s, server[s])
           m == Matching(r.val)
       IN  /\ fetched' = fetched \cup {s}
           /\ IF r.raised
              THEN /\ pc' = "raised"
                   /\ exc' = r.exc
                   /\ UNCHANGED <<total, matching, st>>
              ELSE /\ exc' = exc
                   /\ total' = [total EXCEPT ![s] = Len(r.val)]
                   /\ matching' = m
                   /\ st' = IF prog = "agent" /\ s = "docs"
                            THEN [st EXCEPT ![s] = LoadStateMap(file[s], EmptyMap)]
                            ELSE st
                   /\ pc' = IF prog = "main" /\ (r.val = <<>> \/ m = <<>>)
                            THEN "heartbeat"
                            ELSE "loop"
    /\ idx' = 1
    /\ UNCHANGED <<envVars, histVars, clock, server, file, monitor_file, cur, monitor_state,
                   alerts, exit_status, sends, wrote, hb>>

\* The record of the loop's current iteration and what the loop reads.
CurRec == matching[idx]

CurId == GetId(CurStream, CurRec)

\* is_update without the test for None.
IsUpdateAnyDifference(previous, current) == previous # current

\* is_update as the loop computes it.
IsUpdate(previous, current) == previous # None /\ previous # current

\* An iteration that sends for every record with an id.
NeedsAlertAlways(id, previous, current) == id # ""

\* Whether the iteration goes on to the send (neither continue is taken).
NeedsAlert(id, previous, current) ==
    /\ id # ""
    /\ ~(previous # None /\ previous = current)

\* A loop that calls a record new when its stored marker is empty.
AlertKindTruthy(p, s, previous, current) ==
    IF previous # None /\ previous # "" THEN "update" ELSE "new"

\* What the loop says about the record it alerts: the agent's project and
\* document embeds carry is_update; main.py logs NEW when the id is absent
\* and UPDATED otherwise; the tender and award loops make no difference.
AlertKind(p, s, previous, current) ==
    CASE p = "agent" /\ s \in {"projects", "docs"} ->
            IF IsUpdate(previous, current) THEN "update" ELSE "new"
      [] p = "main" -> IF previous = None THEN "new" ELSE "update"
      [] OTHER -> "plain"

\* A loop that commits whatever the send returned.
CommitsAlways(sent) == TRUE

\* Whether the loop commits after a send that returned `sent`.
Commits(sent) == sent

\* A loop that breaks after a failed send.
AfterSendBreak(i, n, sent) == IF sent THEN i + 1 ELSE n + 1

\* The position of the for loop after the send for record i of n: the
\* loop goes on to the next record whatever the send returned.
AfterSend(i, n, sent) == i + 1

\* One iteration of the diff loop that skips its record.
SkipRecord ==
    /\ pc = "loop"
    /\ idx <= Len(matching)
    /\ ~NeedsAlert(CurId, IF CurId = "" THEN None ELSE st[CurStream][CurId],
                   GetLastUpdate(CurRec))
    /\ idx' = idx + 1
    /\ UNCHANGED <<envVars, histVars, clock, server, file, monitor_file, pc, cur, st,
                   monitor_state, matching, total, alerts, exc, exit_status,
                   sends, wrote, fetched, hb>>

\* One iteration of the diff loop that sends an alert, and commits the
\* marker when the send returned True.
AlertRecord ==
    /\ pc = "loop"
    /\ idx <= Len(matching)
    /\ CurId # ""
    /\ LET s == CurStream
           id == CurId
           current == GetLastUpdate(CurRec)
           previous == st[s][id]
       IN  /\ NeedsAlert(id, previous, current)
           /\ \E post \in PostChoices(url_ok) :
                LET sent == SendResult(url_ok, post)
                    entry == [stream |-> s, id |-> id, marker |-> current,
                              was |-> previous,
                              kind |-> AlertKind(prog, s, previous, current),
                              pos |-> idx, ok |-> sent,
                              posted |-> Configured(url_ok)]
                IN  /\ sends' = Append(sends, entry)
                    /\ ever' = IF sent /\ track = "delivery"
                               THEN ever \cup {<<s, id, current>>}
                               ELSE ever
                    /\ lastDel' = IF sent /\ track = "delivery"
                                  THEN [lastDel EXCEPT ![s][id] = current]
                                  ELSE lastDel
                    /\ dup' = (dup \/ (sent /\ track = "delivery" /\ lastDel[s][id] = current))
                    /\ lost' = lost
                    /\ IF SendRaises(url_ok, post)
                       THEN /\ pc' = "raised"
                            /\ exc' = "Exception"
                            /\ UNCHANGED <<st, alerts, idx>>
                       ELSE /\ pc' = pc
                            /\ exc' = exc
                            /\ idx' = AfterSend(idx, Len(matching), sent)
                            /\ st' = IF Commits(sent)
                                     THEN [st EXCEPT ![s][id] = current]
                                     ELSE st
                            /\ alerts' = IF Commits(sent)
                                         THEN [alerts EXCEPT ![s] = @ + 1]
                                         ELSE alerts
    /\ UNCHANGED <<envVars, prev, same, clock, server, file, monitor_file, cur,
                   monitor_state, matching, total, exit_status, wrote, fetched, hb>>

\* The end of a block: the stream's whole map is written back.
SaveStream ==
    /\ pc = "loop"
    /\ idx > Len(matching)
    /\ \E w \in WriteOutcomes :
         LET s == CurStream
         IN  /\ file' = [file EXCEPT ![s] = SaveStateMap(file[s], st[s], EmptyMap, w)]
             /\ wrote' = [wrote EXCEPT ![s] = w]
             /\ lost' = IF track = "delivery" THEN lost \/ w # "ok" ELSE lost
    /\ pc' = AfterBlock(cur)
    /\ cur' = IF AfterBlock(cur) = "stream" THEN cur + 1 ELSE cur
    /\ UNCHANGED <<envVars, prev, same, ever, lastDel, dup, clock, server, monitor_file, st, monitor_state,
                   matching, idx, total, alerts, exc, exit_status, sends,
                   fetched, hb>>

\* A gate that is open on every day.
HeartbeatDueAnyDay(day, last_heartbeat) == last_heartbeat # IsoFormat(day)

\* The gate of the heartbeat: Monday, and not yet sent today.
HeartbeatDue(day, last_heartbeat) ==
    Weekday(day) = HEARTBEAT_WEEKDAY /\ last_heartbeat # IsoFormat(day)

\* The arguments of send_discord_heartbeat.
HeartbeatCounts ==
    IF prog = "agent"
    THEN <<total["projects"], total["docs"], total["tenders"], total["awards"],
           alerts["projects"], alerts["docs"], alerts["tenders"], alerts["awards"]>>
    ELSE <<total["projects"], Len(matching), alerts["projects"]>>

\* The weekly heartbeat check when the gate is closed.
HeartbeatSkip ==
    /\ pc = "heartbeat"
    /\ ~HeartbeatDue(clock, LastHeartbeat(monitor_state))
    /\ hb' = [hb EXCEPT !.checked = TRUE, !.today = IsoFormat(clock)]
    /\ pc' = "returned"
    /\ UNCHANGED <<envVars, histVars, clock, server, file, monitor_file, cur, st,
                   monitor_state, matching, idx, total, alerts, exc,
                   exit_status, sends, wrote, fetched>>

\* The weekly heartbeat check when the gate is open: the heartbeat is
\* sent, and on success today's date is stored and saved.
HeartbeatSend ==
    /\ pc = "heartbeat"
    /\ HeartbeatDue(clock, LastHeartbeat(monitor_state))
    /\ \E post \in PostChoices(url_ok), w \in WriteOutcomes :
         LET today == IsoFormat(clock)
             sent == SendResult(url_ok, post)
             new == [monitor_state EXCEPT !["last_heartbeat_date"] = today]
         IN  /\ hb' = [checked |-> TRUE, gate |-> TRUE, attempts |-> hb.attempts + 1,
                       ok |-> sent, posted |-> Configured(url_ok),
                       today |-> today, loaded |-> hb.loaded,
                       counts |-> HeartbeatCounts]
             /\ ever' = IF sent /\ track = "delivery"
                        THEN ever \cup {<<"heartbeat", today, "">>}
                        ELSE ever
             /\ IF SendRaises(url_ok, post)
                THEN /\ pc' = "raised"
                     /\ exc' = "Exception"
                     /\ UNCHANGED <<monitor_state, monitor_file>>
                ELSE /\ pc' = "returned"
                     /\ exc' = exc
                     /\ monitor_state' = IF Commits(sent) THEN new ELSE monitor_state
                     /\ monitor_file' =
                            IF Commits(sent)
                            THEN SaveStateMap(monitor_file, new, EmptyMonitor, w)
                            ELSE monitor_file
    /\ UNCHANGED <<envVars, prev, same, lastDel, dup, lost, clock, server, file, cur, st,
                   matching, idx, total, alerts, exit_status, sends, wrote, fetched>>

\* The alerts <<stream, id, marker>> of a run whose send returned b.
Alerts(log, b) ==
    {<<log[i].stream, log[i].id, log[i].marker>> : i \in {j \in 1..Len(log) : log[j].ok = b}}

\* The maps the state files hold.
OnDisk == [s \in StreamSet |-> LoadStateMap(file[s], EmptyMap)]

\* The history before any process has ended.
NoPrev == [done |-> FALSE, failed |-> {}, sent |-> {},
           st |-> [s \in StreamSet |-> EmptyMap],
           disk |-> [s \in StreamSet |-> EmptyMap], wrote |-> NoWrites]

\* The memory of a process that has ended.
ProcessGone ==
    /\ pc' = "idle"
    /\ cur' = 1
    /\ st' = [s \in StreamSet |-> EmptyMap]
    /\ monitor_state' = EmptyMonitor
    /\ matching' = <<>>
    /\ idx' = 1
    /\ total' = ZeroCount
    /\ alerts' = ZeroCount
    /\ exc' = None
    /\ sends' = <<>>
    /\ wrote' = NoWrites
    /\ fetched' = {}
    /\ hb' = NoHeartbeat

\* A top level without the handler: an exception ends the process with 1.
HandlerStatusUncaught(e) == IF e = None THEN 0 ELSE 1

\* The status the top-level handler ends the process with: run_monitor
\* returned, or its exception was caught by `except Exception` and logged.
HandlerStatus(e) == 0

\* The process ends with alerts delivered whose commits no write has taken.
Unsaved == \E i \in 1..Len(sends) : sends[i].ok /\ wrote[sends[i].stream] = "none"

\* The top level (`if __name__ == "__main__"`): the process ends.
Finish ==
    /\ pc \in {"returned", "raised"}
    /\ exit_status' = [how |-> "exit", code |-> HandlerStatus(exc), caught |-> exc]
    /\ prev' = IF track = "rerun"
               THEN [done |-> pc = "returned", failed |-> Alerts(sends, FALSE),
                     sent |-> Alerts(sends, TRUE), st |-> st, disk |-> OnDisk,
                     wrote |-> wrote]
               ELSE NoPrev
    /\ same' = (track = "rerun")
    /\ lost' = IF track = "delivery" THEN lost \/ Unsaved ELSE lost
    /\ ProcessGone
    /\ UNCHANGED <<envVars, ever, lastDel, dup, clock, server, file, monitor_file>>

\* The host kills the process (scheduler timeout): its memory is lost.
Kill ==
    /\ pc # "idle"
    /\ exit_status' = [how |-> "killed", code |-> 137, caught |-> None]
    /\ prev' = NoPrev
    /\ same' = (track = "rerun")
    /\ lost' = IF track = "delivery" THEN lost \/ Unsaved ELSE lost
    /\ ProcessGone
    /\ UNCHANGED <<envVars, ever, lastDel, dup, clock, server, file, monitor_file>>

\* ------------------------------------------------------------------------
\* Environment
\* ------------------------------------------------------------------------

\* Days pass between runs.
Tick ==
    /\ pc = "idle"
    /\ \E d \in Days : d > clock /\ clock' = d
    /\ UNCHANGED <<envVars, histVars, server, file, monitor_file, pc, cur, st, monitor_state,
                   matching, idx, total, alerts, exc, exit_status, sends, wrote,
                   fetched, hb>>

\* Sequences of 1..n elements of S.
SeqUpTo(S, n) == UNION {[1..k -> S] : k \in 1..n}

\* The records of the diff specification: matching records of Nigeria,
\* every key with every marker.
DiffRecs == {Rec(i, m, TRUE, NIGERIA_COUNTRY_CODE, TRUE) : i \in Keys, m \in Markers}

\* The servers of the diff specification: one good page of 1..MaxFetch records.
DiffServers == {<<OkPage(rs)>> : rs \in SeqUpTo(DiffRecs, MaxFetch)}

\* The state files a first run can meet: none, or a legacy array of ids.
FirstFiles ==
    {MissingFile(EmptyMap)} \cup {ListFile(ids, EmptyMap) : ids \in SUBSET Keys \ {{}}}

\* The state files the first run of the delivery history meets: none, or a
\* legacy array of every id.
HistFiles == {MissingFile(EmptyMap), ListFile(Keys, EmptyMap)}

\* The streams a script fetches.
Fetching(p) == {s \in StreamSet : Enabled(s) /\ \E i \in 1..Len(StreamSeq(p)) : StreamSeq(p)[i] = s}

\* The stream that has upstream data in the diff specification.
Focus == {s \in StreamSet : server[s] # EmptyServer}

\* The upstream data of the one stream that has any changes between runs.
DiffChange ==
    /\ pc = "idle"
    /\ \E s \in Focus, new \in DiffServers :
         /\ new # server[s]
         /\ server' = [server EXCEPT ![s] = new]
    /\ same' = FALSE
    /\ prev' = NoPrev
    /\ UNCHANGED <<envVars, ever, lastDel, dup, lost, clock, file, monitor_file, pc, cur, st, monitor_state,
                   matching, idx, total, alerts, exc, exit_status, sends, wrote,
                   fetched, hb>>

\* No second process.
NoOther ==
    [pc |-> "idle", st |-> EmptyMap, loaded |-> EmptyMap, matching |-> <<>>,
     idx |-> 1, sends |-> <<>>, wrote |-> "none",
     early |-> FALSE, late |-> FALSE, after |-> FALSE]

InitProcess ==
    /\ other = NoOther
    /\ pc = "idle"
    /\ cur = 1
    /\ st = [s \in StreamSet |-> EmptyMap]
    /\ monitor_state = EmptyMonitor
    /\ matching = <<>>
    /\ idx = 1
    /\ total = ZeroCount
    /\ alerts = ZeroCount
    /\ exc = None
    /\ exit_status = NoExit
    /\ sends = <<>>
    /\ wrote = NoWrites
    /\ fetched = {}
    /\ hb = NoHeartbeat
    /\ prev = NoPrev
    /\ same = FALSE
    /\ ever = {}
    /\ lastDel = [s \in StreamSet |-> EmptyMap]
    /\ dup = FALSE
    /\ lost = FALSE

\* The diff specification: one stream has upstream data (1..MaxFetch
\* records), the day is no heartbeat day.
InitStreams(files, history) ==
    /\ track = history
    /\ call = NoCall
    /\ http = NoHttp
    /\ prog \in {"agent", "main"}
    /\ url_ok = TRUE
    /\ clock = 1
    /\ monitor_file = MissingFile(EmptyMonitor)
    /\ \E f \in Fetching(prog), srv \in DiffServers, fl \in files :
         /\ server = [s \in StreamSet |-> IF s = f THEN srv ELSE EmptyServer]
         /\ file = [s \in StreamSet |-> IF s = f THEN fl ELSE MissingFile(EmptyMap)]
         /\ legacy = [s \in StreamSet |->
                        IF s = f /\ history = "delivery" THEN fl.ids ELSE {}]
    /\ InitProcess

NextDiff ==
    \/ Start
    \/ SkipStream
    \/ FetchStream
    \/ SkipRecord
    \/ AlertRecord
    \/ SaveStream
    \/ HeartbeatSkip
    \/ Finish
    \/ Kill
    \/ DiffChange

\* The diff specification recording the previous run (for re-runs over
\* unchanged data).
InitDiff == InitStreams(FirstFiles, "rerun")

SpecDiff == InitDiff /\ [][NextDiff]_vars

\* The diff specification recording the deliveries of all runs.
InitHist == InitStreams(HistFiles, "delivery")

SpecHist == InitHist /\ [][NextDiff]_vars

\* The records of the run specification: a matching record of Nigeria, and
\* one that does not match, one without id, one of another country and a
\* value that is no JSON object.
RunGood == Rec("a", "m1", TRUE, NIGERIA_COUNTRY_CODE, TRUE)

RunRecs ==
    {RunGood,
     Rec("a", "m1", FALSE, NIGERIA_COUNTRY_CODE, TRUE),
     Rec("", "m1", TRUE, NIGERIA_COUNTRY_CODE, TRUE),
     Rec("a", "m1", TRUE, "GH", TRUE),
     Rec("a", "m1", TRUE, NIGERIA_COUNTRY_CODE, FALSE)}

\* The ways a page can fail.
FailKinds == PageKinds \ {"ok"}

\* What the Projects API answers in the run specification: a failing page,
\* one page with one record, nothing, or a first page of a longer result
\* followed by an HTTP error.
ProjectServers ==
    {<<FailPage(k)>> : k \in FailKinds}
        \cup {<<OkPage(<<r>>)>> : r \in RunRecs}
        \cup {EmptyServer,
              <<Page("ok", <<RunGood>>, ROWS_PER_PAGE + 1, ROWS_PER_PAGE),
                FailPage("http_error")>>}

\* What the documents API answers in the run specification.
DocServers ==
    {<<FailPage(k)>> : k \in {"transport", "non_object"}}
        \cup {<<OkPage(<<RunGood>>)>>, EmptyServer}

\* The monitor_state.json a run can meet on the first day.
MonitorFiles ==
    {MissingFile(EmptyMonitor), CorruptFile(EmptyMonitor),
     DictFile([k \in MonitorKeys |-> IsoFormat(0)], EmptyMonitor)}

\* The run specification: either script, with or without a webhook, on a
\* Monday, against servers that answer or fail in every modelled way.
InitRun ==
    /\ prog \in {"agent", "main"}
    /\ url_ok \in BOOLEAN
    /\ track = "run"
    /\ call = NoCall
    /\ http = NoHttp
    /\ legacy = [s \in StreamSet |-> {}]
    /\ clock = 0
    /\ monitor_file \in MonitorFiles
    /\ \E ps \in ProjectServers, ds \in DocServers :
         /\ prog = "main" => ds = EmptyServer
         /\ server = [s \in StreamSet |->
                        CASE s = "projects" -> ps
                          [] s = "docs" -> ds
                          [] OTHER -> EmptyServer]
    /\ file = [s \in StreamSet |-> MissingFile(EmptyMap)]
    /\ InitProcess

Next ==
    \/ Start
    \/ SkipStream
    \/ FetchStream
    \/ SkipRecord
    \/ AlertRecord
    \/ SaveStream
    \/ HeartbeatSkip
    \/ HeartbeatSend
    \/ Finish
    \/ Kill
    \/ Tick

Spec == InitRun /\ [][Next]_vars

\* The disabled-streams specification: the agent on a Monday, with or
\* without a webhook, the tenders and awards sources answering with a
\* record, a failure or nothing, tenders_state.json missing, corrupt, a
\* legacy array or an object, awards_state.json missing or a legacy array.
InitInert ==
    /\ prog = "agent"
    /\ url_ok \in BOOLEAN
    /\ track = "run"
    /\ call = NoCall
    /\ http = NoHttp
    /\ legacy = [s \in StreamSet |-> {}]
    /\ clock = 0
    /\ monitor_file = MissingFile(EmptyMonitor)
    /\ \E ps \in {EmptyServer, <<OkPage(<<RunGood>>)>>},
          ts \in {EmptyServer, <<OkPage(<<RunGood>>)>>, <<FailPage("non_object")>>},
          as \in {EmptyServer, <<OkPage(<<RunGood>>)>>},
          tf \in {MissingFile(EmptyMap), CorruptFile(EmptyMap),
                  ListFile({"a"}, EmptyMap),
                  DictFile([k \in Keys |-> IF k = "a" THEN "" ELSE None], EmptyMap)},
          af \in {MissingFile(EmptyMap), ListFile({"a"}, EmptyMap)} :
         /\ server = [s \in StreamSet |->
                        CASE s = "projects" -> ps
                          [] s = "tenders" -> ts
                          [] s = "awards" -> as
                          [] OTHER -> EmptyServer]
         /\ file = [s \in StreamSet |->
                      CASE s = "tenders" -> tf
                        [] s = "awards" -> af
                        [] OTHER -> MissingFile(EmptyMap)]
    /\ InitProcess

SpecInert == InitInert /\ [][Next]_vars

\* The state files of the store specification: none, no JSON, a legacy
\* array, an object with one entry.
StoreFiles ==
    {MissingFile(EmptyMap), CorruptFile(EmptyMap), ListFile({"a"}, EmptyMap),
     DictFile([k \in Keys |-> IF k = "a" THEN "m1" ELSE None], EmptyMap)}

\* What an API answers in the store specification: nothing, a failing
\* first page of every kind, one record whose marker is or is not the
\* stored one, and a first page of a longer result followed by a page that
\* is no JSON.
StoreServers ==
    {EmptyServer} \cup {<<FailPage(k)>> : k \in FailKinds}
        \cup {<<OkPage(<<Rec("a", m, TRUE, NIGERIA_COUNTRY_CODE, TRUE)>>)>> : m \in Markers}
        \cup {<<Page("ok", <<RunGood>>, ROWS_PER_PAGE + 1, ROWS_PER_PAGE), FailPage(k)>> :
                    k \in FailKinds}

\* The store specification: both scripts, on a day without heartbeat,
\* every fetched stream with its own state file and its own server, run
\* after run.
InitStore ==
    /\ prog \in {"agent", "main"}
    /\ url_ok = TRUE
    /\ track = "run"
    /\ call = NoCall
    /\ http = NoHttp
    /\ legacy = [s \in StreamSet |-> {}]
    /\ clock = 1
    /\ monitor_file = MissingFile(EmptyMonitor)
    /\ \E ps, ds \in StoreServers, pf, df \in StoreFiles :
         /\ prog = "main" => ds = EmptyServer /\ df = MissingFile(EmptyMap)
         /\ server = [s \in StreamSet |->
                        CASE s = "projects" -> ps
                          [] s = "docs" -> ds
                          [] OTHER -> EmptyServer]
         /\ file = [s \in StreamSet |->
                      CASE s = "projects" -> pf
                        [] s = "docs" -> df
                        [] OTHER -> MissingFile(EmptyMap)]
    /\ InitProcess

NextStore ==
    \/ Start
    \/ SkipStream
    \/ FetchStream
    \/ SkipRecord
    \/ AlertRecord
    \/ SaveStream
    \/ HeartbeatSkip
    \/ Finish
    \/ Kill

SpecStore == InitStore /\ [][NextStore]_vars

\* The Projects API of the delivery specification returns the same
\* matching record in every run, alone or followed by a record with the
\* same id and no marker.
LiveServers ==
    {<<OkPage(<<RunGood>>)>>,
     <<OkPage(<<RunGood, Rec("a", "", TRUE, NIGERIA_COUNTRY_CODE, TRUE)>>)>>}

InitLive ==
    /\ prog \in {"agent", "main"}
    /\ url_ok = TRUE
    /\ track = "delivery"
    /\ call = NoCall
    /\ http = NoHttp
    /\ legacy = [s \in StreamSet |-> {}]
    /\ clock = 1
    /\ monitor_file = MissingFile(EmptyMonitor)
    /\ server \in {[s \in StreamSet |-> IF s = "projects" THEN ps ELSE EmptyServer] :
                        ps \in LiveServers}
    /\ file \in {[s \in StreamSet |-> IF s = "projects" THEN pf ELSE MissingFile(EmptyMap)] :
                      pf \in StoreFiles}
    /\ InitProcess

\* Runs that are not killed, one after the other.
NextLive ==
    \/ Start
    \/ SkipStream
    \/ FetchStream
    \/ SkipRecord
    \/ AlertRecord
    \/ SaveStream
    \/ HeartbeatSkip
    \/ Finish

\* The send of an alert with marker m returns True.
Delivers(m) ==
    AlertRecord /\ sends'[Len(sends')].ok /\ sends'[Len(sends')].marker = m

\* The write of the projects state succeeds while the map holds marker m
\* for the record's id.
Writes(m) == SaveStream /\ wrote'["projects"] = "ok" /\ st["projects"]["a"] = m

\* The scheduler keeps starting runs and a run keeps going; the send of
\* an alert and the write of a map that are tried again and again do not
\* fail forever.
FairLive ==
    /\ WF_vars(NextLive)
    /\ \A m \in Markers : SF_vars(Delivers(m))
    /\ \A m \in Markers \cup {None} : SF_vars(Writes(m))

\* The delivery specification: run after run over an unchanging source,
\* under fairness of sends and writes.
SpecLive == InitLive /\ [][NextLive]_vars /\ FairLive

\* The heartbeat check when the gate is open and the write of the monitor
\* state, if it comes to it, succeeds.
HeartbeatWritten ==
    HeartbeatSend /\ (hb'.ok => monitor_file' = DictFile(monitor_state', EmptyMonitor))

\* The heartbeat specification: either script, with or without a webhook,
\* run after run from a Monday over the days of more than a week, the
\* delivered heartbeats recorded; monitor_state.json is missing, corrupt
\* or holds the date of another day, and its writes succeed.
InitBeat ==
    /\ prog \in {"agent", "main"}
    /\ url_ok \in BOOLEAN
    /\ track = "delivery"
    /\ call = NoCall
    /\ http = NoHttp
    /\ legacy = [s \in StreamSet |-> {}]
    /\ clock = 0
    /\ monitor_file \in
            {MissingFile(EmptyMonitor), CorruptFile(EmptyMonitor),
             DictFile([k \in MonitorKeys |-> IsoFormat(1)], EmptyMonitor)}
    /\ server \in {[s \in StreamSet |-> IF s = "projects" THEN ps ELSE EmptyServer] :
                        ps \in {EmptyServer, <<FailPage("non_object")>>}}
    /\ file = [s \in StreamSet |-> MissingFile(EmptyMap)]
    /\ InitProcess

NextBeat ==
    \/ Start
    \/ SkipStream
    \/ FetchStream
    \/ SaveStream
    \/ HeartbeatSkip
    \/ HeartbeatWritten
    \/ Finish
    \/ Kill
    \/ Tick

SpecBeat == InitBeat /\ [][NextBeat]_vars

\* ------------------------------------------------------------------------
\* Two processes of the agent at the same time
\* ------------------------------------------------------------------------

\* What a step of the second process leaves alone, the projects file apart.
besideOther ==
    <<prog, url_ok, track, call, http, legacy, clock, server, monitor_file, pc, cur, st,
      monitor_state, matching, idx, total, alerts, exc, exit_status,
      sends, wrote, fetched, hb, prev, same, ever, lastDel, dup, lost>>

\* The second process starts: run_monitor loads projects_state.  `early`
\* records that the first process has not written the file yet.
OtherStart ==
    /\ other.pc = "idle"
    /\ other' = [other EXCEPT !.pc = "stream",
                              !.st = LoadStateMap(file["projects"], EmptyMap),
                              !.loaded = LoadStateMap(file["projects"], EmptyMap),
                              !.early = (wrote["projects"] = "none")]
    /\ UNCHANGED <<besideOther, file>>

\* Its fetch and filter of the projects block.
OtherFetch ==
    /\ other.pc = "stream"
    /\ LET r == Fetch("projects", server["projects"])
       IN  other' = [other EXCEPT !.pc = IF r.raised THEN "raised" ELSE "loop",
                                  !.matching = Matching(r.val),
                                  !.idx = 1]
    /\ UNCHANGED <<besideOther, file>>

\* An iteration of its loop that skips its record.
OtherSkip ==
    /\ other.pc = "loop"
    /\ other.idx <= Len(other.matching)
    /\ LET id == GetId("projects", other.matching[other.idx])
       IN  ~NeedsAlert(id, IF id = "" THEN None ELSE other.st[id],
                       GetLastUpdate(other.matching[other.idx]))
    /\ other' = [other EXCEPT !.idx = @ + 1]
    /\ UNCHANGED <<besideOther, file>>

\* An iteration of its loop that sends an alert and commits on True.
OtherAlert ==
    /\ other.pc = "loop"
    /\ other.idx <= Len(other.matching)
    /\ LET id == GetId("projects", other.matching[other.idx])
           current == GetLastUpdate(other.matching[other.idx])
       IN  /\ id # ""
           /\ NeedsAlert(id, other.st[id], current)
           /\ \E post \in PostChoices(url_ok) :
                LET sent == SendResult(url_ok, post)
                    entry == [id |-> id, marker |-> current, was |-> other.st[id],
                              pos |-> other.idx, ok |-> sent]
                IN  other' =
                        IF SendRaises(url_ok, post)
                        THEN [other EXCEPT !.pc = "raised", !.sends = Append(@, entry)]
                        ELSE [other EXCEPT
                                !.sends = Append(@, entry),
                                !.idx = AfterSend(other.idx, Len(other.matching), sent),
                                !.st = IF Commits(sent)
                                       THEN [other.st EXCEPT ![id] = current]
                                       ELSE other.st]
    /\ UNCHANGED <<besideOther, file>>

\* The end of its projects block: it writes its whole map.  `late` records
\* that the first process had loaded its state, `after` that the first
\* process had written the file before.
OtherSave ==
    /\ other.pc = "loop"
    /\ other.idx > Len(other.matching)
    /\ \E w \in WriteOutcomes :
         /\ file' = [file EXCEPT
                        !["projects"] = SaveStateMap(@, other.st, EmptyMap, w)]
         /\ other' = [other EXCEPT !.pc = "done", !.wrote = w,
                                   !.late = (pc # "idle"),
                                   !.after = (wrote["projects"] # "none")]
    /\ UNCHANGED besideOther

\* The overlap specification: the agent on a day without heartbeat, the
\* Projects API answering one page of matching records, and two processes
\* that each run once, their steps interleaved in every way.
InitOverlap ==
    /\ prog = "agent"
    /\ url_ok = TRUE
    /\ track = "run"
    /\ call = NoCall
    /\ http = NoHttp
    /\ legacy = [s \in StreamSet |-> {}]
    /\ clock = 1
    /\ monitor_file = MissingFile(EmptyMonitor)
    /\ server \in {[s \in StreamSet |-> IF s = "projects" THEN srv ELSE EmptyServer] :
                        srv \in DiffServers}
    /\ file \in {[s \in StreamSet |-> IF s = "projects" THEN pf ELSE MissingFile(EmptyMap)] :
                      pf \in StoreFiles}
    /\ InitProcess

NextOverlap ==
    \/ Start
    \/ SkipStream
    \/ FetchStream
    \/ SkipRecord
    \/ AlertRecord
    \/ SaveStream
    \/ HeartbeatSkip
    \/ OtherStart
    \/ OtherFetch
    \/ OtherSkip
    \/ OtherAlert
    \/ OtherSave

SpecOverlap == InitOverlap /\ [][NextOverlap]_vars

\* ------------------------------------------------------------------------
\* The HTTP client and the notifier, call by call
\* ------------------------------------------------------------------------

\* What the call leaves alone: the run and its files.
runVars ==
    <<prog, url_ok, track, legacy, clock, server, file, monitor_file, pc, cur, st,
      monitor_state, matching, idx, total, alerts, exc, exit_status,
      sends, wrote, fetched, hb, prev, same, ever, lastDel, dup, lost, other>>

\* get_with_retries / post_with_retries is called with some max_retries.
HttpCall ==
    /\ http.pc = "idle"
    /\ \E c \in {"get", "post"}, n \in 0..MaxRetriesArg :
         http' = [NoHttp EXCEPT !.pc = "loop", !.caller = c, !.max_retries = n]
    /\ UNCHANGED <<call, runVars>>

\* A send_*_embed / send_discord_heartbeat is called: without a configured
\* webhook it returns False at once, else it calls post_with_retries with
\* the default max_retries.
SendCall ==
    /\ http.pc = "idle"
    /\ http' = IF Configured(url_ok)
               THEN [NoHttp EXCEPT !.pc = "loop", !.caller = "send",
                                   !.max_retries = MAX_RETRIES]
               ELSE [NoHttp EXCEPT !.pc = "done", !.caller = "send", !.sent = "false"]
    /\ UNCHANGED <<call, runVars>>

\* One iteration of `while attempt <= max_retries`: the request is made; a
\* response is returned; a RequestException ends the call with None on the
\* last attempt and else sleeps and goes on; another exception leaves the
\* function.
HttpAttempt ==
    /\ http.pc = "loop"
    /\ http.attempt <= http.max_retries
    /\ \E o \in AttemptOutcomes :
         http' =
            CASE Caught(o) ->
                    IF http.attempt = http.max_retries
                    THEN [http EXCEPT !.tried = Append(@, o), !.pc = "returned",
                                      !.result = [kind |-> "none", status |-> 0]]
                    ELSE [http EXCEPT !.tried = Append(@, o),
                                      !.slept = Append(@, Backoff(http.attempt)),
                                      !.attempt = @ + 1]
              [] o.kind = "response" ->
                    [http EXCEPT !.tried = Append(@, o), !.pc = "returned", !.result = o]
              [] OTHER ->
                    [http EXCEPT !.tried = Append(@, o), !.pc = "returned",
                                 !.result = [kind |-> "raise", status |-> 0]]
    /\ UNCHANGED <<call, runVars>>

\* The loop condition fails: `return None` after the loop.
HttpExhausted ==
    /\ http.pc = "loop"
    /\ http.attempt > http.max_retries
    /\ http' = [http EXCEPT !.pc = "returned", !.result = [kind |-> "none", status |-> 0]]
    /\ UNCHANGED <<call, runVars>>

\* The send function checks what post_with_retries returned; an exception
\* of post_with_retries passes through it.
SendReturn ==
    /\ http.pc = "returned"
    /\ http.caller = "send"
    /\ http' = [http EXCEPT
                  !.pc = "done",
                  !.sent = CASE SendRaises(url_ok, http.result) -> "raised"
                             [] SendResult(url_ok, http.result) -> "true"
                             [] OTHER -> "false"]
    /\ UNCHANGED <<call, runVars>>

\* The call specification: single calls of the HTTP client and of a send
\* function, with and without a configured webhook.
InitHttp ==
    /\ prog = "agent"
    /\ url_ok \in BOOLEAN
    /\ track = "run"
    /\ call = NoCall
    /\ http = NoHttp
    /\ legacy = [s \in StreamSet |-> {}]
    /\ clock = 0
    /\ monitor_file = MissingFile(EmptyMonitor)
    /\ server = [s \in StreamSet |-> EmptyServer]
    /\ file = [s \in StreamSet |-> MissingFile(EmptyMap)]
    /\ InitProcess

NextHttp ==
    \/ HttpCall
    \/ SendCall
    \/ HttpAttempt
    \/ HttpExhausted
    \/ SendReturn

SpecHttp == InitHttp /\ [][NextHttp]_vars

\* ------------------------------------------------------------------------
\* The functions of the program, call by call
\* ------------------------------------------------------------------------

\* The records of the function specification: two of Nigeria, one of
\* another country.
FetchRecs ==
    {RunGood,
     Rec(" a", "", TRUE, NIGERIA_COUNTRY_CODE, TRUE),
     Rec("a", "m1", TRUE, "GH", TRUE)}

\* The pages a server can answer with: a page of a result that has more
\* pages than the model draws, a last page, an empty page, a failure.
FetchPages ==
    {Page("ok", rs, ROWS_PER_PAGE * MaxPages + 1, ROWS_PER_PAGE) :
        rs \in SeqUpTo(FetchRecs, MaxFetch)}
        \cup {OkPage(rs) : rs \in SeqUpTo(FetchRecs, MaxFetch)}
        \cup {EmptyPage}
        \cup {FailPage(k) : k \in FailKinds}

\* An adapter is called against a server.
CallFetch ==
    /\ call = NoCall
    /\ \E s \in StreamSet :
         \E pages \in SeqUpTo(FetchPages, IF s = "projects" THEN MaxPages ELSE 1) :
            call' = [fn |-> "fetch", stream |-> s, arg |-> pages, out |-> Fetch(s, pages)]
    /\ UNCHANGED <<http, runVars>>

\* The totals and the per-page row counts a paging server reports.
PagingTotals == {0, 1, ROWS_PER_PAGE, ROWS_PER_PAGE + 1, 2 * ROWS_PER_PAGE + 1}

PagingRows == {0, 1, ROWS_PER_PAGE, 2 * ROWS_PER_PAGE}

\* The projects adapter pages through a server that reports one total on
\* all its pages and any row count on each, with full and empty pages.
CallPages ==
    /\ call = NoCall
    /\ \E t \in PagingTotals :
         \E pages \in SeqUpTo({Page("ok", rs, t, r) :
                                  rs \in {<<>>, <<RunGood>>}, r \in PagingRows},
                              MaxPages) \ {<<>>} :
            call' = [fn |-> "pages", stream |-> "projects", arg |-> pages,
                     out |-> [requests |-> PageRequests(pages, 1), total |-> t]]
    /\ UNCHANGED <<http, runVars>>

\* The matcher is called on a text and up to two keywords, the empty
\* text and the empty keyword among them.
CallMatches ==
    /\ call = NoCall
    /\ \E text \in SeqUpTo(Chars, MaxText) \cup {<<>>} :
         \E k1, k2 \in SeqUpTo(Chars, MaxKeyword) \cup {<<>>}, n \in 0..2 :
            LET keywords == CASE n = 0 -> {} [] n = 1 -> {k1} [] OTHER -> {k1, k2}
            IN  call' = [fn |-> "matches", stream |-> "none",
                         arg |-> [text |-> text, keywords |-> keywords],
                         out |-> text_matches_keywords(text, keywords)]
    /\ UNCHANGED <<http, runVars>>

\* A file that holds a JSON value that is neither an object nor an array.
ScalarFile(empty) == [kind |-> "scalar", map |-> empty, ids |-> {}]

\* A file whose bytes are no UTF-8 text.
UndecodableFile(empty) == [kind |-> "undecodable", map |-> empty, ids |-> {}]

\* A call of _load_state_map / load_processed_projects as a whole: the
\* handler is for OSError and json.JSONDecodeError, so the
\* UnicodeDecodeError of f.read() inside json.load leaves the function.
LoadOutcome(f, empty) ==
    IF f.kind = "undecodable"
    THEN Raise("UnicodeDecodeError")
    ELSE Ok(LoadStateMap(f, empty))

\* The loader is called on a state file of every kind.
CallLoad ==
    /\ call = NoCall
    /\ \E f \in {MissingFile(EmptyMap), CorruptFile(EmptyMap), ScalarFile(EmptyMap),
                  UndecodableFile(EmptyMap)}
                    \cup {ListFile(ids, EmptyMap) : ids \in SUBSET Keys}
                    \cup {DictFile(m, EmptyMap) : m \in [Keys -> Markers \cup {None}]} :
         call' = [fn |-> "load", stream |-> "none", arg |-> f,
                  out |-> LoadOutcome(f, EmptyMap)]
    /\ UNCHANGED <<http, runVars>>

\* The candidate id fields a stream's extraction reads: projects and
\* documents "id"; tenders "notice_id", "tender_id", "contract_id", "id";
\* awards "contract_id", "award_id", "id".
CandidateFields ==
    [s \in StreamSet |->
        CASE s = "tenders" -> 4 [] s = "awards" -> 3 [] OTHER -> 1]

\* A stream's id extraction is called on a record whose candidate fields
\* are absent, empty or hold an id.
CallGetId ==
    /\ call = NoCall
    /\ \E s \in StreamSet :
         \E values \in [1..CandidateFields[s] -> Keys \cup {"", None}] :
            call' = [fn |-> "get_id", stream |-> s, arg |-> values,
                     out |-> GetId(s, [id |-> FirstNonNull(values)])]
    /\ UNCHANGED <<http, runVars>>

\* The values a state map or a legacy array can hold in memory and in the
\* file: json.dump writes a str as a JSON string, an int as a number and
\* None as null, and json.load reads each back as the value it was.
StrValue(s) == [type |-> "str", text |-> s]

IntValue == [type |-> "int", text |-> "1"]

NoneValue == [type |-> "NoneType", text |-> "None"]

\* str(v): a str is itself, an int its decimal digits, None the text "None".
str(v) ==
    CASE v.type = "str" -> v.text
      [] v.type = "int" -> "1"
      [] OTHER -> "None"

EmptyDict == [k \in {} |-> StrValue("")]

\* json.dump(mapping, f, indent=2) after open(path, "w") succeeded: the
\* file holds a JSON object with the members of the dict.
DumpJson(mapping) == [kind |-> "dict", members |-> mapping, items |-> <<>>]

\* A file that holds a JSON array (the legacy list of ids).
JsonArray(items) == [kind |-> "list", members |-> EmptyDict, items |-> items]

\* A loader that forgets the markers of a JSON object.
LoadJsonForgets(f) ==
    CASE f.kind = "dict" -> [k \in DOMAIN f.members |-> StrValue("")]
      [] f.kind = "list" -> [k \in {str(f.items[i]) : i \in DOMAIN f.items} |-> StrValue("")]
      [] OTHER -> EmptyDict

\* _load_state_map / load_processed_projects on the parsed file:
\* {str(k): str(v) for k, v in data.items()} for an object,
\* {str(item): "" for item in data} for an array.
LoadJson(f) ==
    CASE f.kind = "dict" -> [k \in DOMAIN f.members |-> StrValue(str(f.members[k]))]
      [] f.kind = "list" -> [k \in {str(f.items[i]) : i \in DOMAIN f.items} |-> StrValue("")]
      [] OTHER -> EmptyDict

\* A map is saved and loaded again; a legacy array is loaded, the loaded
\* map is saved and the written file is loaded again.
CallRoundTrip ==
    /\ call = NoCall
    /\ \/ \E keys \in SUBSET Keys :
            \E mapping \in [keys -> {StrValue(m) : m \in Markers} \cup {IntValue, NoneValue}] :
               call' = [fn |-> "save_load", stream |-> "none", arg |-> mapping,
                        out |-> LoadJson(DumpJson(mapping))]
       \/ \E n \in 0..MaxFetch :
            \E items \in [1..n -> {StrValue(k) : k \in Keys} \cup {IntValue}] :
               LET loaded == LoadJson(JsonArray(items))
                   saved == DumpJson(loaded)
               IN  call' = [fn |-> "load_save_load", stream |-> "none",
                            arg |-> JsonArray(items),
                            out |-> [loaded |-> loaded, saved |-> saved,
                                     reloaded |-> LoadJson(saved)]]
    /\ UNCHANGED <<http, runVars>>

\* The projects a loop call is made on: the id field, the marker and the
\* keywords that occur (whatever the case) in the text extract_project_text
\* returns for the project.
Project(i, m, has) == [id |-> i, marker |-> m, has |-> has]

\* KEYWORDS of main.py, and of monitor_agent.py, which has three more.
KEYWORDS(p) ==
    LET main ==
          {
            "GIS", "Geographic Information System", "Geospatial",
            "Geo-spatial", "Spatial", "Spatial Data", "Spatial Analysis",
            "Spatial Analytics", "Spatial Planning", "Location Intelligence",
            "Geo-data", "Location Data", "Location-based", "Mapping", "Map",
            "Cartography", "Topographic", "Topography", "Base Map",
            "Basemap", "Remote Sensing", "Earth Observation", "EO Data",
            "Satellite", "Satellite Imagery", "Imagery", "Image Analysis",
            "LiDAR", "Raster Data", "UAV", "Drone", "Aerial Survey",
            "Aerial Photography", "GNSS", "GPS", "Survey", "Surveying",
            "Land Survey", "Cadastral", "Cadastre", "Land Administration",
            "Land Registration", "Land Use", "Parcel", "Parcel Mapping",
            "Boundary", "Boundary Mapping", "Geodetic",
            "Environmental Monitoring", "Environmental Information System",
            "Natural Resource Mapping", "Watershed Management",
            "Hydrological Modeling", "Hydrology", "Flood Risk Mapping",
            "Flood Hazard Mapping", "Disaster Risk Mapping",
            "Disaster Risk Management", "DRM Platform",
            "Climate Risk Mapping", "Climate Risk Assessment",
            "Climate Vulnerability", "Vulnerability Mapping",
            "Coastal Erosion Mapping", "Ecosystem Mapping",
            "Habitat Mapping", "Biodiversity Mapping",
            "Urban Spatial Planning", "Transport Modeling",
            "Accessibility Analysis", "Network Analysis", "Health Mapping",
            "Disease Mapping", "Epidemiological Mapping",
            "Spatial Epidemiology", "Disease Hotspot", "Hotspot Mapping",
            "Disease Surveillance", "Outbreak Mapping",
            "Health Facility Mapping", "Service Coverage Mapping"
          }
    IN  IF p = "main" THEN main
        ELSE main \cup {"Natural Resource Management", "Climate Resilience", "Urban Planning"}

\* project_matches_keywords: some keyword of the script's KEYWORDS occurs
\* in the text.
project_matches_keywords(p, project) == project.has \cap KEYWORDS(p) # {}

\* The filter and the diff loop of a script's run_monitor over the fetched
\* projects (the loop runs over the projects the filter keeps, in their
\* order); outcomes[i] is what the send function returns for the project
\* at position i of the fetch.  main.py returns before the loop when
\* nothing was fetched or nothing matches, with nothing sent and nothing
\* counted.
RECURSIVE ProjectsLoop(_, _, _, _, _)
ProjectsLoop(p, projects, outcomes, i, acc) ==
    IF i > Len(projects) THEN acc
    ELSE LET project == projects[i]
             id == GetId("projects", project)
             current == GetLastUpdate(project)
             sent == outcomes[i]
         IN  IF ~project_matches_keywords(p, project) \/ id = ""
             THEN ProjectsLoop(p, projects, outcomes, i + 1, acc)
             ELSE IF ~NeedsAlert(id, acc.state[id], current)
             THEN ProjectsLoop(p, projects, outcomes, i + 1, acc)
             ELSE ProjectsLoop(p, projects, outcomes, i + 1,
                    [sent |-> Append(acc.sent, id),
                     state |-> IF Commits(sent)
                               THEN [acc.state EXCEPT ![id] = current]
                               ELSE acc.state,
                     alerts |-> IF Commits(sent) THEN acc.alerts + 1 ELSE acc.alerts])

\* Both scripts' loops are run on the same loaded projects state, the same
\* fetched projects and the same send outcomes.
CallProjectsLoop ==
    /\ call = NoCall
    /\ \E loaded \in {EmptyMap} \cup {[k \in Keys |-> IF k = "a" THEN m ELSE None] : m \in Markers},
          n \in 0..MaxFetch :
         \E projects \in [1..n -> {Project(i, m, has) :
                                     i \in Keys \cup {""}, m \in Markers,
                                     has \in {{}, {"GIS"}, {"Urban Planning"},
                                              {"Mapping", "Map", "Urban Planning"}}}],
            outcomes \in [1..n -> BOOLEAN] :
            LET start == [sent |-> <<>>, state |-> loaded, alerts |-> 0]
            IN  call' = [fn |-> "projects_loop", stream |-> "projects",
                         arg |-> [loaded |-> loaded, projects |-> projects,
                                  outcomes |-> outcomes],
                         out |-> [p \in {"main", "agent"} |->
                                    ProjectsLoop(p, projects, outcomes, 1, start)]]
    /\ UNCHANGED <<http, runVars>>

NextFun ==
    \/ CallFetch
    \/ CallGetId
    \/ CallLoad
    \/ CallMatches
    \/ CallPages
    \/ CallRoundTrip
    \/ CallProjectsLoop

\* The function specification: single calls of the program's functions on
\* inputs from bounded sets.
SpecFun == InitHttp /\ [][NextFun]_vars

\* ------------------------------------------------------------------------
\* Properties
\* ------------------------------------------------------------------------

\* run_monitor has returned normally; the memory of the run is still there.
RunDone == pc = "returned"

\* A run has returned that followed a completed run over the same data.
Rerun == RunDone /\ same /\ prev.done

\* The alerts <<stream, id, marker>> this run has attempted.
Attempted == Alerts(sends, TRUE) \cup Alerts(sends, FALSE)

\* The last send of a log.
Last(log) == log[Len(log)]

\* A step of the running process inside a diff loop.
LoopStep == pc = "loop" /\ pc' # "idle"

\* A marker is stored under an id only in the step in which the send for
\* that id and marker returned success.
CommitAfterSuccess ==
    \A s \in StreamSet, k \in Keys :
        (LoopStep /\ st'[s][k] # st[s][k]) =>
            /\ Len(sends') = Len(sends) + 1
            /\ Last(sends').ok
            /\ Last(sends').stream = s
            /\ Last(sends').id = k
            /\ Last(sends').marker = st'[s][k]

\* After the run, no failed send's marker is stored under its id.
FailedNotHeld ==
    RunDone => \A a \in Alerts(sends, FALSE) : st[a[1]][a[2]] # a[3]

\* A run over the same data attempts every alert whose send failed before.
FailedRetried == Rerun => prev.failed \subseteq Attempted

\* C1 as stated: the marker is committed only after the send for the record
\* returned success; after a failed send the state after the run does not
\* hold the new marker for that id, and a following run over the same fetch
\* data attempts the same alert again.
C1_AsStated == [][CommitAfterSuccess]_vars /\ [](FailedNotHeld /\ FailedRetried)

\* After the run, the marker of an alert that no send of the run delivered
\* is not stored under its id.
UnsentNotHeld ==
    RunDone => \A a \in Alerts(sends, FALSE) \ Alerts(sends, TRUE) : st[a[1]][a[2]] # a[3]

\* A run over the same data attempts every alert the previous run did not
\* deliver, when the previous run wrote the stream's state.
UnsentRetried ==
    Rerun => \A a \in prev.failed \ prev.sent : prev.wrote[a[1]] = "ok" => a \in Attempted

\* C1 amended: the marker is committed only after the send for the record
\* returned success; after a failed send the state after the run holds the
\* new marker for that id only if another send of the run for the same id
\* and marker succeeded (the fetch lists the record twice); when none did
\* and the run wrote the stream's state, a following run over the same
\* fetch data attempts the same alert again.
C1_CommitOnSuccess == [][CommitAfterSuccess]_vars /\ [](UnsentNotHeld /\ UnsentRetried)

\* C1 witness: a run has retried an alert that the previous run, which
\* wrote its state, failed to deliver; and a send has failed in this run.
C1_Witness ==
    /\ Rerun
    /\ \E a \in prev.failed \ prev.sent : prev.wrote[a[1]] = "ok" /\ a \in Alerts(sends, FALSE)

\* The matching records the adapter of stream s returns to this run.
Upstream(s) == Matching(Fetch(s, server[s]).val)

\* The fetch result of stream s lists no id with two different markers.
OneMarkerPerId(s) ==
    \A i, j \in 1..Len(Upstream(s)) :
        GetId(s, Upstream(s)[i]) = GetId(s, Upstream(s)[j])
            => GetLastUpdate(Upstream(s)[i]) = GetLastUpdate(Upstream(s)[j])

\* The second of two runs sent nothing and left the state, in memory and
\* on disk, as the first run had left it.
SecondRunIdle == sends = <<>> /\ st = prev.st /\ OnDisk = prev.disk

\* C2 as stated: whatever the sends of the first run returned and whatever
\* the fetch lists, a second run over the same fetch result sends no alert
\* and leaves the state in memory and on disk as the first run left it.
C2_AsStated == Rerun => SecondRunIdle

\* Both runs wrote the state of every stream they fetched.
BothWrote == \A s \in Fetching(prog) : prev.wrote[s] = "ok" /\ wrote[s] = "ok"

\* C2 amended: when every send of the first run succeeded, the fetch lists
\* no id with two different markers and both runs wrote their state files,
\* a second run over the same fetch result sends no alert and leaves the
\* state in memory and on disk as the first run left it.
C2_Idempotence ==
    (Rerun /\ prev.failed = {} /\ BothWrote /\ \A s \in Fetching(prog) : OneMarkerPerId(s))
        => SecondRunIdle

\* C2 witness: the second run was idle after a first run that delivered alerts.
C2_Witness ==
    /\ Rerun /\ prev.failed = {} /\ BothWrote
    /\ \A s \in Fetching(prog) : OneMarkerPerId(s)
    /\ prev.sent # {}
    /\ SecondRunIdle

\* A step of the running process that evaluates the record at idx.
Evaluates == pc = "loop" /\ idx <= Len(matching) /\ pc' # "idle"

\* The step has sent an alert of kind k for the record at idx.
AlertedAs(k) ==
    /\ Len(sends') = Len(sends) + 1
    /\ Last(sends').kind = k
    /\ Last(sends').stream = CurStream
    /\ Last(sends').id = CurId
    /\ Last(sends').marker = CurRec.marker

\* How the loops treat the record at idx, by what the state holds under
\* its id.
Classified ==
    (Evaluates /\ CurId # "") =>
        LET previous == st[CurStream][CurId]
        IN  /\ previous = None => AlertedAs("new")
            /\ (previous # None /\ previous # CurRec.marker) => AlertedAs("update")
            /\ previous = CurRec.marker => (sends' = sends /\ st' = st)
            /\ (Len(sends') > Len(sends) /\ Last(sends').ok)
                  => st' = [st EXCEPT ![CurStream][CurId] = CurRec.marker]

SendFailed ==
    /\ pc = "loop"
    /\ pc' \notin {"idle", "raised"}
    /\ Len(sends') > Len(sends)
    /\ ~Last(sends').ok

\* After a failed send the loop goes on with the next record of the block.
GoesOn == SendFailed => (pc' = "loop" /\ idx' = idx + 1 /\ matching' = matching /\ cur' = cur)

\* A stream with a failed send has had its state saved when the run returns.
FailedStillSaved ==
    RunDone => \A i \in 1..Len(sends) : ~sends[i].ok => wrote[sends[i].stream] # "none"

\* C6: a failed send does not abort the stream: the loop goes on with the
\* next matching record, and the stream's state is saved after its loop.
C6_FailureDoesNotAbort == [][GoesOn]_vars /\ []FailedStillSaved

\* C6 witness: after a failed send a later record of the same fetch was
\* alerted and the stream's state was written.
C6_Witness ==
    /\ RunDone
    /\ \E i, j \in 1..Len(sends) :
          /\ ~sends[i].ok
          /\ sends[j].stream = sends[i].stream
          /\ sends[j].pos > sends[i].pos
          /\ sends[j].ok
          /\ wrote[sends[i].stream] = "ok"

\* An alert for id k of stream s with marker m has been delivered (2xx).
Delivered(s, k, m) == <<s, k, m>> \in ever

\* Every id of the map holds a marker that was delivered for it.
HoldsDelivered(m) ==
    \A s \in StreamSet, k \in Keys : m[s][k] # None => Delivered(s, k, m[s][k])

\* Every id an alert was delivered for is a key of the map.
HoldsAlerted(m) ==
    \A s \in StreamSet, k \in Keys : (\E v \in Markers : Delivered(s, k, v)) => m[s][k] # None

\* C4 as stated: after any sequence of runs, an id is a key of the stream
\* state if and only if an alert for the marker stored under it has been
\* delivered in this or an earlier run, however the state was loaded.
C4_AsStated == RunDone => (HoldsDelivered(st) /\ HoldsAlerted(st))

\* Every id of the map holds a marker that was delivered for it, or the
\* empty marker that loading a legacy array gave it.
HoldsDeliveredOrLegacy(m) ==
    \A s \in StreamSet, k \in Keys :
        m[s][k] # None => (Delivered(s, k, m[s][k]) \/ (k \in legacy[s] /\ m[s][k] = ""))

\* An id alerted in this run is a key with the marker delivered last.
AlertedHeld ==
    \A i \in 1..Len(sends) :
        sends[i].ok => st[sends[i].stream][sends[i].id] = lastDel[sends[i].stream][sends[i].id]

\* While no commit was lost, the markers delivered last are those the state
\* holds at the end of a run and those the files hold between runs.
DeliveredKept ==
    ~lost => \A s \in StreamSet, k \in Keys :
        lastDel[s][k] # None =>
            /\ RunDone => st[s][k] = lastDel[s][k]
            /\ pc = "idle" => OnDisk[s][k] = lastDel[s][k]

\* C4 amended: every id that is a key of a stream state, in memory or on
\* disk, holds a marker for which an alert was delivered for that id, or the
\* empty marker that loading a legacy array gave it; an id alerted in a run
\* is a key with the marker delivered last for the rest of that run, and at
\* the end of later runs and on disk as long as every state write succeeded
\* and no run ended with a delivered alert before its stream's save.
C4_StateInvariant ==
    /\ HoldsDeliveredOrLegacy(st)
    /\ HoldsDeliveredOrLegacy(OnDisk)
    /\ AlertedHeld
    /\ DeliveredKept

\* C4 witness: a run that sent nothing holds, loaded from disk, the marker
\* an earlier run delivered for an id of the legacy array, beside a legacy
\* id that still holds the empty marker.
C4_Witness ==
    /\ RunDone /\ sends = <<>> /\ ~lost
    /\ \E s \in StreamSet, k \in Keys :
          /\ k \in legacy[s]
          /\ st[s][k] = "m1"
          /\ Delivered(s, k, "m1")
          /\ \E j \in legacy[s] : st[s][j] = "" /\ ~Delivered(s, j, "")

Position(s) == CHOOSE i \in 1..Len(Streams) : Streams[i] = s

\* The enabled streams whose blocks come after the block of stream s.
Later(s) == {u \in Fetching(prog) : Position(u) > Position(s)}

\* The fetch of stream s fails: a page that is no well-formed page of JSON
\* objects.
Failing(s) ==
    \E i \in 1..Len(server[s]) : server[s][i].kind # "ok" \/ ~AllDict(server[s][i].recs)

\* run_monitor has ended, by returning or by an exception.
RunEnded == pc \in {"returned", "raised"}

\* C7 as stated: in whatever way a stream's fetch fails, every later enabled
\* stream is still fetched, diffed and persisted in the same run and the
\* heartbeat check still runs (runs in which a POST raised are left aside).
C7_AsStated ==
    (RunEnded /\ exc # "Exception") =>
        \A s \in fetched :
            Failing(s) =>
                /\ \A u \in Later(s) : u \in fetched /\ wrote[u] # "none"
                /\ hb.checked

\* C7 witness: the Projects API answered with a JSON value that is no
\* object; run_monitor ended by AttributeError with the documents stream
\* not fetched and the heartbeat not checked.
C7_Witness ==
    /\ pc = "raised" /\ exc = "AttributeError" /\ prog = "agent"
    /\ server["projects"][1].kind = "non_object"
    /\ "docs" \notin fetched
    /\ ~hb.checked

\* The gate as the claim states it: Monday, and the loaded date is not today's.
GateOpen == Weekday(clock) = 0 /\ hb.loaded # IsoFormat(clock)

\* C8: in each run that returns normally (main.py: on each of its exit
\* paths), the heartbeat check has run, the heartbeat send was attempted at
\* most once, and it was attempted if and only if today is Monday and the
\* loaded last_heartbeat_date differs from today's date.
C8_HeartbeatGate ==
    RunDone => (hb.checked /\ hb.attempts <= 1 /\ (hb.attempts = 1 <=> GateOpen))

\* C8 witness: main.py returned on its path for no matching project, on a
\* Monday, after one heartbeat attempt.
C8_Witness ==
    /\ RunDone /\ prog = "main"
    /\ total["projects"] > 0 /\ matching = <<>> /\ wrote["projects"] = "none"
    /\ hb.attempts = 1 /\ GateOpen

\* A step of the running process.
RunningStep == pc # "idle" /\ pc' # "idle"

\* The step is a heartbeat send that returned success.
HeartbeatSucceeded == pc = "heartbeat" /\ hb'.attempts = hb.attempts + 1 /\ hb'.ok

\* The last_heartbeat_date a run would load from monitor_state.json.
PersistedDate == LastHeartbeat(load_monitor_state(prog, monitor_file))

\* The monitor state in memory changes only in the step of a successful
\* heartbeat, to today's date.
MemoryAfterSuccess ==
    (RunningStep /\ monitor_state' # monitor_state) =>
        (HeartbeatSucceeded /\ LastHeartbeat(monitor_state') = IsoFormat(clock))

\* The persisted date changes only in the step of a successful heartbeat,
\* to today's date.
FileAfterSuccess ==
    PersistedDate' # PersistedDate =>
        (HeartbeatSucceeded /\ PersistedDate' = IsoFormat(clock))

FileAfterSuccessfulWrite ==
    monitor_file' # monitor_file =>
        /\ HeartbeatSucceeded
        /\ IF monitor_file'.kind = "dict"
           THEN PersistedDate' = IsoFormat(clock)
           ELSE monitor_file'.kind = "corrupt" /\ PersistedDate' = ""

PcRank == CASE pc = "stream" -> 0 [] pc = "loop" -> 1 [] pc = "heartbeat" -> 2 [] OTHER -> 3

Rank == 100 * cur + 10 * PcRank + idx

\* Every step of the running process brings it nearer to its end.
Progress == RunningStep => Rank' > Rank

\* The steps the process takes by itself.
RunStep ==
    \/ SkipStream
    \/ FetchStream
    \/ SkipRecord
    \/ AlertRecord
    \/ SaveStream
    \/ HeartbeatSkip
    \/ HeartbeatSend
    \/ Finish

\* A process that ended by itself ended with status 0.
ExitZero == exit_status.how = "exit" => exit_status.code = 0

\* C10: every invocation the host does not kill goes on, step by step
\* towards its end, until the top level ends it, and it ends with status 0:
\* an exception raised inside run_monitor is caught at the top level and
\* never becomes a non-zero exit.
C10_CleanExit ==
    /\ [][Progress]_vars
    /\ [](pc # "idle" => ENABLED RunStep)
    /\ []ExitZero

\* C10 witness: a process whose run_monitor raised AttributeError has ended
\* with status 0.
C10_Witness ==
    /\ pc = "idle"
    /\ exit_status = [how |-> "exit", code |-> 0, caught |-> "AttributeError"]

\* The call of the HTTP client has ended.
HttpEnded == http.pc \in {"returned", "done"}

\* The numbers of the attempts that failed at transport level.
TransportFailures == {k \in 1..Len(http.tried) : http.tried[k].kind = "transport"}

\* The call makes at most max_retries attempts, and every step of its loop
\* is one more attempt.
BoundedAttempts ==
    /\ Len(http.tried) <= http.max_retries
    /\ http.attempt <= Len(http.tried) + 1
    /\ http.pc = "loop" => ENABLED (HttpAttempt \/ HttpExhausted)

\* C11 as stated: a call ends after at most max_retries attempts, and on
\* each transport-level failure number k it has slept
\* RETRY_BACKOFF_SECONDS * k seconds before it went on.
C11_AsStated ==
    /\ BoundedAttempts
    /\ HttpEnded => \A k \in TransportFailures :
            k <= Len(http.slept) /\ http.slept[k] = RETRY_BACKOFF_SECONDS * k

\* C11 amended: a call ends after at most max_retries request attempts; on
\* each transport-level failure number k < max_retries it sleeps
\* RETRY_BACKOFF_SECONDS * k seconds and then makes attempt k + 1; after
\* failure number max_retries it returns null without sleeping.
C11_BoundedRetry ==
    /\ BoundedAttempts
    /\ Len(http.slept) = Cardinality({k \in TransportFailures : k < http.max_retries})
    /\ \A k \in 1..Len(http.slept) : http.slept[k] = RETRY_BACKOFF_SECONDS * k
    /\ HttpEnded => \A k \in TransportFailures :
            IF k < http.max_retries
            THEN Len(http.tried) >= k + 1
            ELSE Len(http.tried) = k /\ http.result.kind = "none"

\* C11 witness: a call with the default max_retries has failed three times
\* at transport level, slept 3 and 6 seconds and returned null.
C11_Witness ==
    /\ http.pc = "returned" /\ http.max_retries = MAX_RETRIES
    /\ http.result.kind = "none"
    /\ http.slept = <<3, 6>>
    /\ Len(http.tried) = 3

\* Every attempt the call made failed at transport level, and it made
\* max_retries of them.
AllAttemptsFailed ==
    /\ Len(http.tried) = http.max_retries
    /\ \A k \in 1..Len(http.tried) : http.tried[k].kind = "transport"

\* C12: for every max_retries, a call that has ended returned null iff
\* every one of its max_retries attempts failed at transport level; an
\* attempt that yields a response is the last one, and that response is
\* what the call returns, whatever its status code.
C12_NullOnlyWhenExhausted ==
    /\ HttpEnded /\ http.caller # "none" /\ http.result # Pending =>
            (http.result.kind = "none" <=> AllAttemptsFailed)
    /\ \A k \in 1..Len(http.tried) :
            http.tried[k].kind = "response" =>
                /\ k = Len(http.tried)
                /\ HttpEnded
                /\ http.result = http.tried[k]
                /\ Len(http.slept) = k - 1

\* C12 witness: the second of three allowed attempts yields a response
\* with an error status, and the call has returned that response.
C12_Witness ==
    /\ http.pc = "returned" /\ http.caller = "get" /\ http.max_retries = 3
    /\ Len(http.tried) = 2 /\ http.tried[1].kind = "transport"
    /\ http.result = [kind |-> "response", status |-> 300]

\* C13 as stated: whatever a request attempt ends with, the HTTP client
\* ends with a response or null and a send function ends with true or
\* false.
C13_AsStated ==
    /\ HttpEnded /\ http.result # Pending => http.result.kind \in {"response", "none"}
    /\ http.pc = "done" => http.sent \in {"true", "false"}

\* C13 witness: a request attempt of a send function raised an exception
\* that is no RequestException, and the exception has left the send
\* function.
C13_Witness ==
    /\ http.pc = "done" /\ http.caller = "send"
    /\ Len(http.tried) > 0
    /\ http.tried[Len(http.tried)].kind = "raise"
    /\ http.sent = "raised"

\* A send function has returned, with the webhook configured.
SendEnded == http.pc = "done" /\ http.caller = "send" /\ Configured(url_ok)

\* C14: with a configured endpoint a send returns true iff the HTTP client
\* returned a response (not null) whose status code is in 200..299; a null
\* result or any other status gives false.
C14_NotifierResult ==
    SendEnded =>
        /\ http.sent = "true" <=>
                (http.result.kind = "response"
                    /\ http.result.status >= 200 /\ http.result.status <= 299)
        /\ http.result.kind = "none" => http.sent = "false"
        /\ (http.result.kind = "response"
                /\ (http.result.status < 200 \/ http.result.status > 299))
              => http.sent = "false"

\* C14 witness: a send whose POST failed twice at transport level and was
\* then answered with status 299 has returned true.
C14_Witness ==
    /\ SendEnded /\ http.sent = "true"
    /\ Len(http.tried) = 3
    /\ http.result = [kind |-> "response", status |-> 299]

\* No send of the run, alert or heartbeat, returned true or made a POST.
NothingSent ==
    /\ \A i \in 1..Len(sends) : ~sends[i].ok /\ ~sends[i].posted
    /\ ~hb.ok /\ ~hb.posted

\* The step commits nothing: no stream state entry changes in a diff loop,
\* no state file gains or changes an entry, and the heartbeat date stays
\* what it was in memory and on disk.
NothingCommitted ==
    /\ LoopStep => st' = st
    /\ RunningStep => monitor_state' = monitor_state
    /\ monitor_file' = monitor_file
    /\ \A s \in StreamSet, k \in Keys : OnDisk'[s][k] \in {OnDisk[s][k], None}

\* C15: when the webhook is missing or the placeholder, every alert send
\* and the heartbeat send return false without a POST, and over any number
\* of runs no stream state entry and no heartbeat date is committed.
C15_ConfigurationGuard == [][~url_ok => NothingSent' /\ NothingCommitted]_vars

\* C15 witness: without a webhook a run has tried an alert and the Monday
\* heartbeat, wrote the projects state file and returned with empty state.
C15_Witness ==
    /\ RunDone /\ ~url_ok
    /\ Len(sends) > 0 /\ hb.attempts = 1
    /\ wrote["projects"] = "ok"
    /\ \A k \in Keys : st["projects"][k] = None

\* The records of Nigeria of pages 1..k, in page order.
RECURSIVE RegionFiltered(_, _)
RegionFiltered(pages, k) ==
    IF k = 0 THEN <<>>
    ELSE RegionFiltered(pages, k - 1)
            \o SelectSeq(pages[k].recs, LAMBDA r : r.cc = NIGERIA_COUNTRY_CODE)

\* Pages 1..k of the server succeed with more to come and page k + 1
\* fails: the request fails after its retries, or the status is an error.
FailsAfter(pages, k) ==
    /\ k + 1 <= Len(pages)
    /\ \A j \in 1..k :
            /\ pages[j].kind = "ok" /\ pages[j].recs # <<>>
            /\ j * pages[j].rows < pages[j].total
    /\ pages[k + 1].kind \in {"transport", "http_error"}

\* C16: when pages 1..k of the projects fetch succeed and page k + 1
\* fails, the adapter returns exactly the records of Nigeria of pages 1..k
\* in page order.
C16_PartialPages ==
    (call.fn = "fetch" /\ call.stream = "projects") =>
        \A k \in 0..MaxPages :
            FailsAfter(call.arg, k) => call.out = Ok(RegionFiltered(call.arg, k))

\* C16 witness: two pages succeeded, the third failed, and the adapter
\* returned the records of Nigeria of both pages, the other country's
\* record left out.
C16_Witness ==
    /\ call.fn = "fetch" /\ call.stream = "projects"
    /\ FailsAfter(call.arg, 2)
    /\ Len(call.arg[1].recs) = 2 /\ Len(call.arg[2].recs) = 2
    /\ Len(call.out.val) = 3
    /\ call.out.val[3] = call.arg[2].recs[2]

\* C17 as stated: every record an adapter returns, in every stream, has
\* the configured country code: it passed a client-side check.
C17_AsStated ==
    (call.fn = "fetch" /\ ~call.out.raised) =>
        \A i \in 1..Len(call.out.val) : call.out.val[i].cc = NIGERIA_COUNTRY_CODE

\* C17 witness: the procurement plans adapter has returned a record of
\* another country that the keyword matcher accepts.
C17_Witness ==
    /\ call.fn = "fetch" /\ call.stream = "docs" /\ ~call.out.raised
    /\ \E i \in 1..Len(call.out.val) :
            /\ call.out.val[i].cc # NIGERIA_COUNTRY_CODE
            /\ call.out.val[i].isdict
            /\ Matching(<<call.out.val[i]>>) # <<>>

\* The keyword stands in the text at offset d, the case of the letters
\* left aside.
OccursAt(text, kw, d) ==
    /\ d + Len(kw) <= Len(text)
    /\ \A j \in 1..Len(kw) :
            text[d + j] = kw[j] \/ {text[d + j], kw[j]} = {"G", "g"}

\* C18: for a text that is not empty, the matcher is true iff some
\* keyword, lower-cased, is a contiguous substring of the lower-cased text,
\* at any offset; for the empty text it is false for every keyword set.
C18_KeywordMatching ==
    call.fn = "matches" =>
        IF call.arg.text = <<>>
        THEN call.out = FALSE
        ELSE call.out <=>
                \E kw \in call.arg.keywords, d \in 0..Len(call.arg.text) :
                    OccursAt(call.arg.text, kw, d)

\* C18 witness: an upper-case keyword is found inside a longer lower-case
\* text, not at its start.
C18_Witness ==
    /\ call.fn = "matches" /\ call.out = TRUE
    /\ call.arg.text = <<"o", "g", "i">>
    /\ call.arg.keywords = {<<"G", "i">>}

\* C19 as stated: loading an array of ids gives the map that sends each
\* listed id to the empty marker and has no other key; loading a missing
\* file, an unparsable file or another JSON value gives the empty map; no
\* load raises.
C19_AsStated ==
    call.fn = "load" =>
        /\ ~call.out.raised
        /\ call.arg.kind = "list" =>
                \A k \in Keys :
                    call.out.val[k] = IF k \in call.arg.ids THEN "" ELSE None
        /\ call.arg.kind \in {"missing", "corrupt", "undecodable", "scalar"} =>
                call.out.val = EmptyMap

\* C19 witness: the loader was called on a file whose bytes are no UTF-8
\* text, and an exception left it.
C19_Witness ==
    /\ call.fn = "load" /\ call.arg.kind = "undecodable"
    /\ call.out.raised /\ call.out.exc = "UnicodeDecodeError"

\* The extracted id is the first candidate field that is not null (for a
\* project, stripped), and empty when every candidate is absent.
FirstCandidateTaken ==
    call.fn = "get_id" =>
        LET present == {i \in DOMAIN call.arg : call.arg[i] # None}
            first == CHOOSE i \in present : \A j \in present : i <= j
        IN  IF present = {} THEN call.out = ""
            ELSE call.out = IF call.stream = "projects"
                            THEN Strip(call.arg[first])
                            ELSE call.arg[first]

\* The loop is at a record whose id is empty, and the process goes on.
AtEmptyId ==
    /\ pc = "loop" /\ idx <= Len(matching) /\ pc' # "idle"
    /\ matching[idx].id = ""

EmptyFetch(s) == pc # "idle" /\ pc # "raised" /\ s \in fetched /\ total[s] = 0

\* C21 as stated: when a stream's fetch returned an empty sequence, the
\* run sends no alert for that stream and no step of the run changes the
\* stream's state in memory or the map its file holds.
C21_AsStated ==
    [][\A s \in StreamSet :
        (RunningStep /\ EmptyFetch(s)') =>
            /\ \A i \in 1..Len(sends') : sends'[i].stream # s
            /\ s \in fetched => st'[s] = st[s]
            /\ OnDisk'[s] = OnDisk[s]]_vars

\* C21 witness: the agent's fetch of a stream returned nothing, the state
\* it had loaded holds an entry, and the write at the end of the block
\* failed and left a file that holds none.
C21_Witness ==
    \E s \in StreamSet :
        /\ EmptyFetch(s) /\ prog = "agent"
        /\ wrote[s] = "write_failed"
        /\ st[s]["a"] = "m1"
        /\ OnDisk[s]["a"] = None

\* The step is the write of the current stream's state file, and it fails.
WriteFails ==
    /\ pc = "loop" /\ wrote[CurStream] = "none"
    /\ wrote'[CurStream] \in {"open_failed", "write_failed"}

\* C22 as stated: a failed write of a stream's state file neither aborts
\* the run nor raises and leaves the file as it was; the run still fetches
\* every stream and makes its heartbeat check; and a following run over
\* the same data attempts again every alert whose commit was not written.
C22_AsStated ==
    [][/\ WriteFails =>
            /\ pc' = AfterBlock(cur) /\ exc' = None
            /\ file'[CurStream] = file[CurStream]
       /\ RunDone => (Fetching(prog) \subseteq fetched /\ hb.checked)
       /\ Rerun =>
            \A a \in prev.sent :
                prev.wrote[a[1]] \in {"open_failed", "write_failed"} => a \in Attempted]_vars

\* C22 witness: a run has returned whose write failed and left a file
\* that holds nothing, while the map in memory holds an id the run did not
\* alert.
C22_Witness ==
    \E s \in StreamSet, k \in Keys :
        /\ RunDone /\ wrote[s] = "write_failed"
        /\ st[s][k] = "" /\ OnDisk[s][k] = None
        /\ \A i \in 1..Len(sends) : sends[i].id # k

\* The place of a stream in the order projects, procurement plans,
\* tenders, awards.
Place(s) ==
    CASE s = "projects" -> 1 [] s = "docs" -> 2 [] s = "tenders" -> 3 [] OTHER -> 4

\* The streams of the running script whose flag is on.
Walked ==
    {s \in StreamSet :
        /\ prog = "agent" \/ s = "projects"
        /\ s = "tenders" => ENABLE_TENDERS_STREAM
        /\ s = "awards" => ENABLE_AWARDS_STREAM}

\* Where the run stands: a stream is fetched only after every stream
\* before it has had its whole block, its alerts come after the alerts of
\* the streams before it, its file is written only after its fetch, and
\* the heartbeat check comes after the last block.
PhasesInOrder ==
    pc # "idle" =>
        /\ fetched \subseteq Walked
        /\ \A s \in fetched, r \in Walked :
                Place(r) < Place(s) =>
                    /\ r \in fetched
                    /\ prog = "agent" => wrote[r] # "none"
        /\ \A s \in StreamSet : wrote[s] # "none" => s \in fetched
        /\ \A i \in 1..Len(sends) :
                /\ sends[i].stream \in fetched
                /\ wrote[sends[i].stream] # "none" => pc # "loop" \/ CurStream # sends[i].stream
                /\ \A j \in 1..(i - 1) : Place(sends[j].stream) <= Place(sends[i].stream)
        /\ hb.checked =>
                /\ pc \in {"returned", "raised"}
                /\ prog = "agent" => \A s \in Walked : wrote[s] # "none"

\* A stream's file is written once: in the step that ends its loop, with
\* the whole map, and no later step of the run sends for the stream,
\* changes its map or touches its file.
WrittenOnce ==
    \A s \in StreamSet :
        /\ (RunningStep /\ wrote[s] = "none" /\ wrote'[s] # "none") =>
                /\ pc = "loop" /\ CurStream = s /\ idx > Len(matching)
                /\ pc' # "loop"
                /\ wrote'[s] = "ok" => file'[s] = DictFile(st[s], EmptyMap)
        /\ (RunningStep /\ wrote[s] # "none") =>
                /\ wrote'[s] = wrote[s] /\ file'[s] = file[s] /\ st'[s] = st[s]
        /\ (RunningStep /\ wrote[s] = "none" /\ wrote'[s] = "none") => file'[s] = file[s]

\* A run of the agent that returns has fetched and written every enabled
\* stream and made its heartbeat check; main.py has written its one
\* stream when its loop ran.
AllPhasesDone ==
    RunDone =>
        /\ fetched = Walked /\ hb.checked
        /\ prog = "agent" => \A s \in Walked : wrote[s] # "none"
        /\ prog = "main" => (wrote["projects"] # "none" <=> matching # <<>>)

MapRead(s) ==
    \E k \in Keys :
        /\ st'[s][k] # st[s][k]
        /\ ~(/\ Len(sends') = Len(sends) + 1
             /\ Last(sends').stream = s /\ Last(sends').id = k)

LoadedFirst ==
    (pc = "idle" /\ pc' # "idle") =>
        /\ \A s \in StreamSet \ {"docs"} :
                (prog = "agent" \/ s = "projects") => st'[s] = OnDisk[s]
        /\ monitor_state' = load_monitor_state(prog, monitor_file)
        /\ fetched' = {} /\ sends' = <<>>

\* The procurement-plan state is read in the step of the procurement-plan
\* fetch that returns, not before, and before any alert of that stream.
DocsLoadedInBlock ==
    prog = "agent" =>
        /\ (pc' # "idle" /\ "docs" \notin fetched') => st'["docs"] = EmptyMap
        /\ (RunningStep /\ "docs" \notin fetched /\ "docs" \in fetched' /\ pc' # "raised") =>
                /\ st'["docs"] = OnDisk["docs"]
                /\ "projects" \in fetched
                /\ \A i \in 1..Len(sends') : sends'[i].stream # "docs"

\* No other step of a run reads a state: the maps change by commits only,
\* the monitor state by a delivered heartbeat only.
NoOtherRead ==
    /\ \A s \in StreamSet :
            (RunningStep /\ MapRead(s)) =>
                (prog = "agent" /\ s = "docs" /\ "docs" \notin fetched)
    /\ (RunningStep /\ monitor_state' # monitor_state) => HeartbeatSucceeded

CeilDiv(a, b) == (a + b - 1) \div b

\* C25 as stated: against a server that reports a fixed total and any
\* row count per page, the projects adapter makes at most
\* ceil(total / rows_per_page) page requests (its first request apart).
C25_AsStated ==
    call.fn = "pages" =>
        \/ call.out.requests = 1
        \/ call.out.requests <= CeilDiv(call.out.total, ROWS_PER_PAGE)

\* C25 witness: the server reports total 1 and 0 rows on every page, all
\* of them non-empty, and the adapter has requested every page the server
\* has and one more.
C25_Witness ==
    /\ call.fn = "pages" /\ call.out.total = 1 /\ Len(call.arg) = MaxPages
    /\ \A i \in 1..Len(call.arg) : call.arg[i].rows = 0 /\ call.arg[i].recs # <<>>
    /\ call.out.requests = MaxPages + 1

\* The bodies that are no JSON or not of the expected shape, and those of
\* them the projects adapter answers with `break`.
MalformedKinds == {"non_json", "non_object", "bad_total", "bad_collection"}

BreakKinds == {"non_json", "bad_collection"}

\* The pages of its server the adapter of stream s asks for: the projects
\* servers announce a second page on their first, the others have one.
Requested(s) == IF s = "projects" THEN 1..Len(server[s]) ELSE {1}

\* The fetch of stream s has been made in the running process.
Fetched(s) == pc # "idle" /\ s \in fetched

NoSendFor(s) == \A i \in 1..Len(sends) : sends[i].stream # s

\* C26 as stated: a stream one of whose pages has a malformed body gives
\* no records and no alerts in the run.
C26_AsStated ==
    \A s \in StreamSet :
        (Fetched(s) /\ \E i \in Requested(s) : server[s][i].kind \in MalformedKinds) =>
            total[s] = 0 /\ NoSendFor(s)

\* C26: a malformed first page gives no records and no alerts; a later
\* page of the projects fetch that is no JSON or whose collection is no
\* object ends the paging and the records of the pages before are
\* returned and alerted; a later page that is no JSON object or whose
\* total is not a number raises out of the adapter and of the run, and
\* nothing is sent or written for the stream.
C26_MalformedPage ==
    \A s \in StreamSet :
        Fetched(s) =>
            /\ server[s][1].kind \in MalformedKinds => total[s] = 0 /\ NoSendFor(s)
            /\ (s = "projects" /\ Len(server[s]) = 2 /\ server[s][1].kind = "ok") =>
                    /\ server[s][2].kind \in BreakKinds =>
                            /\ total[s] = Len(SelectNG(server[s][1].recs))
                            /\ \A i \in 1..Len(sends) :
                                    sends[i].stream = s =>
                                        \E j \in 1..Len(server[s][1].recs) :
                                            sends[i].id = GetId(s, server[s][1].recs[j])
                    /\ server[s][2].kind \in MalformedKinds \ BreakKinds =>
                            /\ pc = "raised" /\ exc \in {"AttributeError", "ValueError"}
                            /\ total[s] = 0 /\ NoSendFor(s) /\ wrote[s] = "none"

\* C26 witness: the second page of the projects fetch was no JSON, and the
\* record of the first page has been alerted and committed.
C26_Witness ==
    /\ Fetched("projects") /\ Len(server["projects"]) = 2
    /\ server["projects"][2].kind = "non_json"
    /\ total["projects"] = 1
    /\ \E i \in 1..Len(sends) : sends[i].stream = "projects" /\ sends[i].ok
    /\ wrote["projects"] = "ok"

\* Id k of stream s comes from a legacy array: the run is in the loop of
\* s, and the file it loaded is a JSON array that holds k.
Legacy(s, k) ==
    pc = "loop" /\ CurStream = s /\ file[s].kind = "list" /\ k \in file[s].ids

\* No alert for k of stream s has been delivered in the run.
Undelivered(s, k) ==
    \A i \in 1..Len(sends) : ~(sends[i].stream = s /\ sends[i].id = k /\ sends[i].ok)

\* The loop of stream s is at a record with id k.
AtRecord(s, k) ==
    pc = "loop" /\ CurStream = s /\ idx <= Len(matching) /\ CurId = k

\* C27: an id loaded from a legacy array has the marker "" in memory; a
\* record with that id and no marker is skipped without alert; a record
\* with that id and a marker is alerted as an update, and when the alert
\* is delivered the id's marker in memory is the fetched one, else it
\* stays "".
C27_LegacyIds ==
    [][\A s \in StreamSet, k \in Keys :
          /\ (Legacy(s, k)' /\ Undelivered(s, k)') => st'[s][k] = ""
          /\ (RunningStep /\ Legacy(s, k) /\ Undelivered(s, k) /\ AtRecord(s, k)) =>
                IF GetLastUpdate(CurRec) = ""
                THEN sends' = sends /\ st' = st /\ idx' = idx + 1
                ELSE /\ Len(sends') = Len(sends) + 1
                     /\ Last(sends').stream = s /\ Last(sends').id = k
                     /\ Last(sends').was = "" /\ Last(sends').kind = "update"
                     /\ Last(sends').marker = GetLastUpdate(CurRec)
                     /\ st'[s][k] = IF Last(sends').ok THEN GetLastUpdate(CurRec) ELSE ""]_vars

\* C27 witness: a project id of a legacy array was fetched with a marker,
\* its alert went out as an update and was delivered, and the marker is
\* stored and written.
C27_Witness ==
    \E s \in StreamSet :
        /\ RunDone /\ Len(sends) >= 1
        /\ sends[1].stream = s /\ sends[1].id = "a" /\ sends[1].was = ""
        /\ sends[1].kind = "update" /\ sends[1].ok
        /\ st[s]["a"] = "m1" /\ wrote[s] = "ok" /\ OnDisk[s]["a"] = "m1"

\* Between two runs, the projects file maps the record's id to its marker.
Persisted == pc = "idle" /\ OnDisk["projects"]["a"] = "m1"

\* The running process has sent no alert for the record.
Quiet ==
    \A i \in 1..Len(sends) :
        ~(sends[i].stream = "projects" /\ sends[i].id = "a" /\ sends[i].marker = "m1")

\* The marker the running process loaded for the record's id: what its
\* first alert for the id was compared with or, without one, what the map
\* holds.
LoadedMarker ==
    LET for == {i \in 1..Len(sends) : sends[i].stream = "projects" /\ sends[i].id = "a"}
    IN  IF for = {} THEN st["projects"]["a"]
        ELSE sends[CHOOSE i \in for : \A j \in for : i <= j].was

\* The record is the only one of its fetch.
Alone == Len(server["projects"][1].recs) = 1

\* C28 as stated, for a record every fetch returns alone: under fairness
\* of sends and writes the persisted state eventually maps its id to its
\* marker, from then on no alert is sent for it, and a run that returns
\* without an alert for it found its marker in the state.
C28_AsStated ==
    Alone =>
        /\ <>Persisted
        /\ [](Persisted => []Quiet)
        /\ [](RunDone => (~Quiet \/ LoadedMarker = "m1"))

\* C28 witness: the record is the only one of its fetch, its alert had
\* been delivered before, and it has been delivered again as new.
C28_Witness ==
    /\ dup /\ Alone
    /\ pc = "loop" /\ Len(sends) = 1 /\ sends[1].ok
    /\ sends[1].id = "a" /\ sends[1].marker = "m1" /\ sends[1].was = None

\* Sequence a is b with some of its elements left out, the others in the
\* order of b.
IsSubsequence(a, b) ==
    \E f \in [1..Len(a) -> 1..Len(b)] :
        /\ \A i, j \in 1..Len(a) : i < j => f[i] < f[j]
        /\ \A i \in 1..Len(a) : a[i] = b[f[i]]

\* While the loop of a stream runs, the records it walks are a subsequence
\* of what the server returned, its alerts so far are for records the loop
\* has passed, each for the record at its position, later alerts at later
\* positions.
SendsInFetchOrder ==
    pc = "loop" =>
        /\ IsSubsequence(matching, server[CurStream][1].recs)
        /\ \A i \in 1..Len(sends) :
              sends[i].stream = CurStream =>
                  /\ sends[i].pos < idx
                  /\ sends[i].pos <= Len(matching)
                  /\ sends[i].id = GetId(CurStream, matching[sends[i].pos])
                  /\ sends[i].marker = GetLastUpdate(matching[sends[i].pos])
                  /\ \A j \in 1..(i - 1) :
                        sends[j].stream = CurStream => sends[j].pos < sends[i].pos

\* A step sends at most one alert, for the record the loop is at, and the
\* same step decides its commit and moves the loop on.
OneSendPerStep ==
    RunningStep =>
        \/ sends' = sends
        \/ /\ pc = "loop" /\ Len(sends') = Len(sends) + 1
           /\ SubSeq(sends', 1, Len(sends)) = sends
           /\ Last(sends').stream = CurStream /\ Last(sends').pos = idx
           /\ st'[CurStream][Last(sends').id] =
                 IF Last(sends').ok THEN Last(sends').marker
                 ELSE st[CurStream][Last(sends').id]
           /\ (pc' = "loop" /\ idx' = idx + 1) \/ pc' = "raised"

\* C29: within a stream the alerts are sent in the order of the fetched
\* sequence, one at a time, and the commit of a record is decided before
\* the loop goes on to the next record.
C29_SequentialOrder == [][SendsInFetchOrder' /\ OneSendPerStep]_vars

\* C29 witness: two records of one fetch have been alerted, the first
\* without commit, the second with, at the positions they were fetched at.
C29_Witness ==
    /\ pc = "loop" /\ Len(sends) = 2 /\ Len(matching) = 2
    /\ sends[1].pos = 1 /\ sends[2].pos = 2
    /\ sends[1].id = "a" /\ sends[2].id = " a"
    /\ ~sends[1].ok /\ sends[2].ok
    /\ st[CurStream]["a"] = None /\ st[CurStream][" a"] = sends[2].marker

\* Both processes have written the projects file and the first has
\* returned; both had loaded their state before either wrote.
BothDone == pc = "returned" /\ other.pc = "done"

Overlapped == other.early /\ other.late

\* The <<id, marker>> alerts the first and the second process delivered.
DeliveredFirst ==
    {<<sends[i].id, sends[i].marker>> :
        i \in {j \in 1..Len(sends) : sends[j].stream = "projects" /\ sends[j].ok}}

DeliveredOther ==
    {<<other.sends[i].id, other.sends[i].marker>> :
        i \in {j \in 1..Len(other.sends) : other.sends[j].ok}}

\* C30 as stated: after two overlapping runs whose writes succeeded, every
\* id either run delivered an alert for is in the persisted state, and no
\* alert was delivered by both.
C30_AsStated ==
    (BothDone /\ Overlapped /\ wrote["projects"] = "ok" /\ other.wrote = "ok") =>
        /\ \A a \in DeliveredFirst \cup DeliveredOther : OnDisk["projects"][a[1]] # None
        /\ DeliveredFirst \cap DeliveredOther = {}

\* The record at position p of the fetch is the first with its id and the
\* state both processes loaded calls for an alert.
CallsForAlert(p) ==
    LET id == GetId("projects", other.matching[p])
    IN  /\ id # ""
        /\ \A q \in 1..(p - 1) : GetId("projects", other.matching[q]) # id
        /\ ~(other.loaded[id] # None
             /\ other.loaded[id] = GetLastUpdate(other.matching[p]))

\* C30: two runs that overlap are not kept apart.  The file holds the map
\* of the process that wrote last, whatever the other had committed; and
\* every record that the state they both loaded calls an alert for is
\* alerted by both.
C30_LastWriterWins ==
    BothDone =>
        /\ (wrote["projects"] = "ok" /\ other.wrote = "ok") =>
                OnDisk["projects"] = IF other.after THEN other.st ELSE st["projects"]
        /\ Overlapped =>
                \A p \in 1..Len(other.matching) :
                    CallsForAlert(p) =>
                        /\ \E i \in 1..Len(sends) :
                                sends[i].stream = "projects" /\ sends[i].pos = p
                        /\ \E i \in 1..Len(other.sends) : other.sends[i].pos = p

\* C30 witness: the runs overlapped, the first delivered the alert for a
\* project and wrote its marker, the second failed to send it and wrote
\* last: the marker is not in the file.
C30_Witness ==
    /\ BothDone /\ Overlapped /\ wrote["projects"] = "ok" /\ other.wrote = "ok"
    /\ other.after
    /\ <<"a", "m1">> \in DeliveredFirst /\ DeliveredOther = {}
    /\ other.loaded["a"] = None /\ OnDisk["projects"]["a"] = None

\* The positions in `sends` of the running loop's alerts for id k.
SendsFor(k) ==
    {i \in 1..Len(sends) : sends[i].stream = CurStream /\ sends[i].id = k}

\* C31 as stated: within the loop of a stream at most one alert send is
\* attempted for any id.
C31_AsStated ==
    pc = "loop" => \A k \in Keys : Cardinality(SendsFor(k)) <= 1

\* C31: within the loop of a stream at most one alert is sent per fetched
\* record; an id that the fetch lists more than once is alerted again at a
\* later occurrence exactly when that occurrence's marker differs from the
\* one the map holds by then, which is the case when the markers differ or
\* when the earlier send failed and the id was new.
C31_OnePerRecord ==
    pc = "loop" =>
        /\ \A i, j \in 1..Len(sends) :
              (sends[i].stream = CurStream /\ sends[j].stream = CurStream
                    /\ sends[i].pos = sends[j].pos) => i = j
        /\ \A k \in Keys :
              Cardinality(SendsFor(k)) <=
                  Cardinality({p \in 1..Len(matching) : GetId(CurStream, matching[p]) = k})
        /\ \A k \in Keys : \A i, j \in SendsFor(k) :
              (i < j /\ \A h \in SendsFor(k) : ~(i < h /\ h < j)) =>
                  /\ sends[j].was = IF sends[i].ok THEN sends[i].marker ELSE sends[i].was
                  /\ sends[j].was = None \/ sends[j].was # sends[j].marker

\* C31 witness: the fetch lists one id twice with two markers, and both
\* records have been alerted and delivered in the same loop.
C31_Witness ==
    /\ pc = "loop" /\ Len(sends) = 2
    /\ sends[1].id = "a" /\ sends[2].id = "a"
    /\ sends[1].stream = CurStream /\ sends[2].stream = CurStream
    /\ sends[1].marker # sends[2].marker
    /\ sends[1].ok /\ sends[2].ok

\* The alerts of stream s in this run whose send returned True.
DeliveredIn(s) == {i \in 1..Len(sends) : sends[i].stream = s /\ sends[i].ok}

\* The records of the first page of stream s that match a keyword and
\* have an id.
Alertable(s) ==
    {p \in 1..Len(server[s][1].recs) :
        /\ server[s][1].recs[p].match
        /\ GetId(s, server[s][1].recs[p]) # ""}

\* The counter of a stream is the number of its delivered alerts, which is
\* at most the number of matching records with an id, and every alert is
\* for a matching record.
CountersExact ==
    pc # "idle" =>
        \A s \in StreamSet :
            /\ alerts[s] = Cardinality(DeliveredIn(s))
            /\ alerts[s] <= Cardinality(Alertable(s))
            /\ \A i \in 1..Len(sends) :
                  sends[i].stream = s =>
                      \E p \in Alertable(s) :
                          /\ GetId(s, server[s][1].recs[p]) = sends[i].id
                          /\ GetLastUpdate(server[s][1].recs[p]) = sends[i].marker

\* A step of a loop raises the counter by one exactly when it assigns a
\* marker in the stream's map, and that is when its send returned True.
CountedWithCommit ==
    \A s \in StreamSet :
        LoopStep =>
            /\ alerts'[s] \in {alerts[s], alerts[s] + 1}
            /\ (alerts'[s] = alerts[s] + 1) <=> (st'[s] # st[s])
            /\ (alerts'[s] = alerts[s] + 1) <=>
                    (/\ Len(sends') = Len(sends) + 1
                     /\ Last(sends').stream = s /\ Last(sends').ok)

\* C32: at the end of a stream's loop its alert counter is the number of
\* sends that returned success, which is the number of assignments to its
\* map, and at most the number of matching records with an id; a record
\* that matches no keyword causes no send and no change of the map.
C32_CountersExact == [][CountersExact' /\ CountedWithCommit]_vars

\* C32 witness: a loop has ended with one alert delivered and counted and
\* one that failed and was not.
C32_Witness ==
    \E s \in StreamSet :
        /\ pc = "loop" /\ CurStream = s /\ idx > Len(matching)
        /\ alerts[s] = 1 /\ Len(sends) = 2
        /\ sends[1].stream = s /\ sends[2].stream = s
        /\ sends[1].ok /\ ~sends[2].ok

\* The ids a state file holds, and the ids a map holds.
FileKeys(f) ==
    CASE f.kind = "dict" -> {k \in DOMAIN f.map : f.map[k] # None}
      [] f.kind = "list" -> f.ids
      [] OTHER -> {}

MapKeys(m) == {k \in DOMAIN m : m[k] # None}

\* Within a run no key leaves a map, and an entry changes in a loop only
\* in the step whose send for its id returned True.
MapGrows ==
    \A s \in StreamSet :
        RunningStep =>
            /\ MapKeys(st[s]) \subseteq MapKeys(st'[s])
            /\ \A k \in Keys :
                  (LoopStep /\ st'[s][k] # st[s][k]) =>
                      /\ Len(sends') = Len(sends) + 1
                      /\ Last(sends').stream = s /\ Last(sends').id = k
                      /\ Last(sends').ok /\ st'[s][k] = Last(sends').marker

\* A file changes only by a write; a write that succeeds keeps every id
\* the file held, and the marker of every id the run sent no alert for.
FileGrows ==
    \A s \in StreamSet :
        /\ file'[s] # file[s] =>
              /\ pc = "loop" /\ CurStream = s
              /\ wrote'[s] \in {"ok", "write_failed"}
        /\ (pc = "loop" /\ wrote[s] = "none" /\ wrote'[s] = "ok") =>
              /\ FileKeys(file[s]) \subseteq FileKeys(file'[s])
              /\ \A k \in FileKeys(file[s]) :
                    (\A i \in 1..Len(sends) : ~(sends[i].stream = s /\ sends[i].id = k)) =>
                        file'[s].map[k] = IF file[s].kind = "list" THEN "" ELSE file[s].map[k]

\* C33: no operation of a run removes a key from a stream state; an entry
\* changes only by the delivered alert of its own id; ids the source no
\* longer returns keep their marker; a successful write never shrinks the
\* persisted key set.
C33_StateGrows == [][MapGrows /\ FileGrows]_vars

\* C33 witness: the source no longer returns an id whose marker an earlier
\* run stored, and a later run has written the file with the marker kept.
C33_Witness ==
    \E s \in StreamSet :
        /\ RunDone /\ wrote[s] = "ok" /\ s \in fetched /\ sends = <<>>
        /\ \A p \in 1..Len(server[s][1].recs) : GetId(s, server[s][1].recs[p]) # "a"
        /\ file[s].kind = "dict" /\ file[s].map["a"] = "m1"

\* A heartbeat has been delivered on the current day.
BeatToday == <<"heartbeat", IsoFormat(clock), "">> \in ever

StringMap(m) == \A k \in DOMAIN m : m[k].type = "str"

DisabledStreams == {"tenders", "awards"}

InertNow ==
    \A s \in DisabledStreams :
        /\ s \notin fetched
        /\ \A i \in 1..Len(sends) : sends[i].stream # s
        /\ wrote[s] = "none"
        /\ total[s] = 0
        /\ alerts[s] = 0
        /\ pc # "idle" => st[s] = LoadStateMap(file[s], EmptyMap)

InertStep == \A s \in DisabledStreams : file'[s] = file[s]

HeartbeatZeros ==
    (hb.attempts > 0) =>
        /\ Len(hb.counts) = 2 * Len(Streams)
        /\ \A i \in 1..Len(Streams) :
              Streams[i] \in DisabledStreams =>
                  hb.counts[i] = 0 /\ hb.counts[Len(Streams) + i] = 0

C36_DisabledInert ==
    [][InertNow' /\ InertStep /\ HeartbeatZeros']_vars

C36_Witness ==
    /\ pc = "returned"
    /\ hb.ok
    /\ hb.counts[1] = 1
    /\ server["tenders"] = <<OkPage(<<RunGood>>)>>
    /\ server["awards"] = <<OkPage(<<RunGood>>)>>
    /\ file["tenders"].kind = "dict"
    /\ file["awards"].kind = "list"
    /\ st["tenders"]["a"] = ""
    /\ st["awards"]["a"] = ""
    /\ fetched = {"projects", "docs"}

SameFilter ==
    \A i \in 1..Len(call.arg.projects) :
        project_matches_keywords("main", call.arg.projects[i])
            <=> project_matches_keywords("agent", call.arg.projects[i])

C37_AgreeOnSameFilter ==
    (call.fn = "projects_loop" /\ SameFilter) => call.out["main"] = call.out["agent"]

====
